---- MODULE Spec2Model ----
(***************************************************************************)
(* Zone lookup, final-third entry detection, entry-outcome tracing, zone    *)
(* statistics and dominance metrics of the Belgium - North Macedonia match *)
(* analysis.                                                               *)
(*                                                                         *)
(* Units: pitch coordinates are held in centimetres (17.5 m = 1750), so    *)
(* that every boundary of the source (17.5, 20.16, 52.5, ...) is an        *)
(* integer; timestamps are milliseconds as in the source; xG and xA are    *)
(* held in thousandths.                                                    *)
(***************************************************************************)
EXTENDS Integers, Sequences, FiniteSets, TLC

\* The fields of the records below, once each.  Every record is written with
\* its fields in the order of this list, which is the order TLC keeps them in.
FieldOrder ==
    [ op |-> 1, kind |-> 2, name |-> 3, x |-> 4, y |-> 5, value |-> 6, rows |-> 7,
      error |-> 8, event |-> 9, team_name |-> 10, sequence_id |-> 11,
      entry_event_id |-> 12, entry_timestamp |-> 13, time_window |-> 14,
      eventId |-> 15, timestamp |-> 16, teamName |-> 17, baseTypeName |-> 18,
      resultId |-> 19, resultName |-> 20, startPosXM |-> 21, endPosXM |-> 22,
      startPosYM |-> 23, endPosYM |-> 24, sequenceId |-> 25, metrics |-> 26,
      present |-> 27, xG |-> 28, xA |-> 29, entry_zone |-> 30, outcome |-> 31,
      box_entries_found |-> 32, shots_found |-> 33, box_entry |-> 34,
      box_entry_count |-> 35, shot |-> 36, shot_count |-> 37, goal |-> 38,
      goal_count |-> 39, total_xg |-> 40, turnover |-> 41, recycled |-> 42,
      raised |-> 43, first |-> 44, second |-> 45, entries_df |-> 46,
      total_entries |-> 47, entries_with_shot |-> 48, total_shots |-> 49,
      shot_rate |-> 50, xg_per_entry |-> 51, xg_per_shot |-> 52,
      entries_with_box_entry |-> 53, total_box_entries |-> 54,
      box_entry_rate |-> 55, total_turnovers |-> 56, turnover_rate |-> 57,
      total_recycles |-> 58, recycle_rate |-> 59, nan |-> 60, exponent |-> 61,
      mantissa |-> 62, subTypeId |-> 63, startTimeMs |-> 64, endTimeMs |-> 65,
      team1_name |-> 66, team2_name |-> 67,
      team1_possession_percentage |-> 68, team2_possession_percentage |-> 69,
      team1_field_tilt |-> 70, team2_field_tilt |-> 71,
      team1_prog_passes |-> 72, team2_prog_passes |-> 73,
      team1_prog_passes_outside_final_third |-> 74,
      team2_prog_passes_outside_final_third |-> 75,
      team1_prog_passes_in_final_third |-> 76,
      team2_prog_passes_in_final_third |-> 77,
      team1_ppda |-> 78, team2_ppda |-> 79, shotTypeName |-> 80,
      team1_successful_passes |-> 81, team2_successful_passes |-> 82,
      team1_final_third_entries |-> 83, team2_final_third_entries |-> 84,
      team1_box_touches |-> 85, team2_box_touches |-> 86,
      team1_xg |-> 87, team2_xg |-> 88,
      team1_total_shots |-> 89, team2_total_shots |-> 90,
      team1_on_target_shots |-> 91, team2_on_target_shots |-> 92,
      team1_blocked_shots |-> 93, team2_blocked_shots |-> 94,
      team |-> 95, possession |-> 96, field_tilt |-> 97,
      successful_passes |-> 98, final_third_entries |-> 99,
      box_touches |-> 100, progressive_passes |-> 101, pp_ratio |-> 102,
      pp_outside_final_third |-> 103, pp_in_final_third |-> 104,
      on_target_shots |-> 105, blocked_shots |-> 106, ppda |-> 107,
      frame_id |-> 108, shirt_number |-> 109, tracking_df |-> 110,
      defending_team_name |-> 111, possession_frame_ids |-> 112,
      positions |-> 113, block_metrics |-> 114, frame_count |-> 115,
      area |-> 116, vertical_spread |-> 117, horizontal_spread |-> 118,
      mean_x |-> 119, mean_y |-> 120, defensive_line |-> 121,
      avg_positions |-> 122, avg_compactness |-> 123, sum |-> 124,
      count |-> 125, points |-> 126, summary |-> 127 ]

VARIABLES
    pc,          \* where the run is: "start", "loaded" (event table built), "done"
    events,      \* the event table (events_df), rows in file order
    tie_order,   \* order sort_values leaves among rows of equal timestamp
    call,        \* the analysis call made last, with its arguments
    ret,         \* what that call returned (or that it raised)
    window,      \* analyze_sequence_outcome: next_events after the selection
    scanned,     \* analyze_sequence_outcome: next_events the loop iterates over
    results      \* analyze_block_by_ball_position: the results map after the frame loop

vars == <<pc, events, tie_order, call, ret, window, scanned, results>>

(***************************************************************************)
(* config.py : PitchZones                                                  *)
(***************************************************************************)

\* Mutant of ZONES: the centre bands reach one centimetre into the left bands.
ZONES_center_overlaps_left ==
    << [name |-> "left_progression",   x |-> <<-1750, 1750>>, y |-> << 1200,  3400>>],
       [name |-> "center_progression", x |-> <<-1750, 1750>>, y |-> <<-1200,  1201>>],
       [name |-> "right_progression",  x |-> <<-1750, 1750>>, y |-> <<-3400, -1200>>],
       [name |-> "left_final_third",   x |-> << 1750, 5250>>, y |-> << 1200,  3400>>],
       [name |-> "center_final_third", x |-> << 1750, 5250>>, y |-> <<-1200,  1201>>],
       [name |-> "right_final_third",  x |-> << 1750, 5250>>, y |-> <<-3400, -1200>>] >>

\* ZONES, in declaration order (a dict iterates in insertion order).
ZONES ==
    << [name |-> "left_progression",   x |-> <<-1750, 1750>>, y |-> << 1200,  3400>>],
       [name |-> "center_progression", x |-> <<-1750, 1750>>, y |-> <<-1200,  1200>>],
       [name |-> "right_progression",  x |-> <<-1750, 1750>>, y |-> <<-3400, -1200>>],
       [name |-> "left_final_third",   x |-> << 1750, 5250>>, y |-> << 1200,  3400>>],
       [name |-> "center_final_third", x |-> << 1750, 5250>>, y |-> <<-1200,  1200>>],
       [name |-> "right_final_third",  x |-> << 1750, 5250>>, y |-> <<-3400, -1200>>] >>

get_zones == ZONES

\* The loop of get_zone_for_position from the i-th zone on.
RECURSIVE zone_loop(_, _, _, _)
zone_loop(zones, i, x, y) ==
    IF i > Len(zones)
    THEN "build_up_zone"
    ELSE LET x_min == zones[i].x[1]
             x_max == zones[i].x[2]
             y_min == zones[i].y[1]
             y_max == zones[i].y[2]
         IN  IF x_min <= x /\ x <= x_max /\ y_min <= y /\ y <= y_max
             THEN zones[i].name
             ELSE zone_loop(zones, i + 1, x, y)

\* Mutant of get_zone_for_position: the loop falls through without the default.
RECURSIVE zone_loop_no_default(_, _, _, _)
zone_loop_no_default(zones, i, x, y) ==
    IF i > Len(zones)
    THEN "None"
    ELSE IF /\ zones[i].x[1] <= x /\ x <= zones[i].x[2]
            /\ zones[i].y[1] <= y /\ y <= zones[i].y[2]
         THEN zones[i].name
         ELSE zone_loop_no_default(zones, i + 1, x, y)

get_zone_for_position_no_default(x, y) == zone_loop_no_default(ZONES, 1, x, y)

\* Mutant of get_zone_for_position: the upper bounds are exclusive.
RECURSIVE zone_loop_half_open(_, _, _, _)
zone_loop_half_open(zones, i, x, y) ==
    IF i > Len(zones)
    THEN "build_up_zone"
    ELSE IF /\ zones[i].x[1] <= x /\ x < zones[i].x[2]
            /\ zones[i].y[1] <= y /\ y < zones[i].y[2]
         THEN zones[i].name
         ELSE zone_loop_half_open(zones, i + 1, x, y)

get_zone_for_position_half_open(x, y) == zone_loop_half_open(ZONES, 1, x, y)

get_zone_for_position(x, y) == zone_loop(ZONES, 1, x, y)

(***************************************************************************)
(* The event table.  A row carries the columns the analysis reads; metrics *)
(* is the optional per-event metrics object of the export, None or a dict  *)
(* with xG and xA.                                                         *)
(***************************************************************************)
Teams == {"Belgium", "North Macedonia"}

NoMetrics == [present |-> FALSE]
Metrics(xG, xA) == [present |-> TRUE, xG |-> xG, xA |-> xA]

ResultName(resultId) == IF resultId = 1 THEN "SUCCESSFUL" ELSE "UNSUCCESSFUL"

\* One record of events.json; eventId is set when the table is built.
Event(type, team, resultId, sx, sy, ex, ey, seq, ts, metrics) ==
    [ eventId      |-> 0,
      timestamp    |-> ts,
      teamName     |-> team,
      baseTypeName |-> type,
      resultId     |-> resultId,
      resultName   |-> ResultName(resultId),
      startPosXM   |-> sx,
      endPosXM     |-> ex,
      startPosYM   |-> sy,
      endPosYM     |-> ey,
      sequenceId   |-> seq,
      metrics      |-> metrics ]

(***************************************************************************)
(* zone_entries_data.py : is_box_entry                                     *)
(***************************************************************************)

\* Mutant of is_box_entry: where the event started is not looked at.
is_box_entry_end_only(event) ==
    /\ 3600 <= event.endPosXM /\ event.endPosXM <= 5250
    /\ -2016 <= event.endPosYM /\ event.endPosYM <= 2016

is_box_entry(event) ==
    LET start_x == event.startPosXM
        start_y == event.startPosYM
        end_x == event.endPosXM
        end_y == event.endPosYM
        started_inside ==
            /\ 3600 <= start_x /\ start_x <= 5250
            /\ -2016 <= start_y /\ start_y <= 2016
        ended_inside ==
            /\ 3600 <= end_x /\ end_x <= 5250
            /\ -2016 <= end_y /\ end_y <= 2016
    IN  (~started_inside) /\ ended_inside

(***************************************************************************)
(* final_third_entries_data.py : get_final_third_entries                   *)
(***************************************************************************)

\* The row of the returned frame: the selected columns and the xA column.
entry_columns(row) ==
    [ eventId      |-> row.eventId,
      timestamp    |-> row.timestamp,
      teamName     |-> row.teamName,
      baseTypeName |-> row.baseTypeName,
      resultName   |-> row.resultName,
      startPosXM   |-> row.startPosXM,
      endPosXM     |-> row.endPosXM,
      startPosYM   |-> row.startPosYM,
      endPosYM     |-> row.endPosYM,
      sequenceId   |-> row.sequenceId,
      xA           |-> IF row.metrics.present THEN row.metrics.xA ELSE 0 ]

\* Mutant of get_final_third_entries: an event must end beyond x = 17.5.
get_final_third_entries_strict_end(events_df) ==
    LET is_entry(e) ==
            /\ e.baseTypeName \in {"PASS", "DRIBBLE"}
            /\ e.resultId = 1
            /\ e.startPosXM < 1750
            /\ e.endPosXM > 1750
        final_third_entries == SelectSeq(events_df, is_entry)
    IN  [i \in 1..Len(final_third_entries) |-> entry_columns(final_third_entries[i])]

get_final_third_entries(events_df) ==
    LET is_entry(e) ==
            /\ e.baseTypeName \in {"PASS", "DRIBBLE"}
            /\ e.resultId = 1
            /\ e.startPosXM < 1750
            /\ e.endPosXM >= 1750
        final_third_entries == SelectSeq(events_df, is_entry)
    IN  [i \in 1..Len(final_third_entries) |-> entry_columns(final_third_entries[i])]

(***************************************************************************)
(* zone_entries_data.py : classify_entry_zone                              *)
(***************************************************************************)
\* Mutant of classify_entry_zone: the labels of the two sides swapped, as in
\* the superseded copy of the function in final_third_entries_data.py.
classify_entry_zone_sides_swapped(x, y) ==
    IF x < 1750
    THEN "None"
    ELSE IF y < -1200
         THEN "left"
         ELSE IF y > 1200
              THEN "right"
              ELSE "center"

\* Mutant of classify_entry_zone: the two side bands include y = -12 and y = 12.
classify_entry_zone_closed_sides(x, y) ==
    IF x < 1750
    THEN "None"
    ELSE IF y <= -1200
         THEN "right"
         ELSE IF y >= 1200
              THEN "left"
              ELSE "center"

classify_entry_zone(x, y) ==
    IF x < 1750
    THEN "None"
    ELSE IF y < -1200
         THEN "right"
         ELSE IF y > 1200
              THEN "left"
              ELSE "center"

(***************************************************************************)
(* zone_entries_data.py : analyze_sequence_outcome                         *)
(***************************************************************************)

\* Default of the time_window parameter (ms).
DefaultTimeWindow == 15000

RemoveAt(rows, i) == [k \in 1..(Len(rows) - 1) |-> IF k < i THEN rows[k] ELSE rows[k + 1]]

\* sort_values(by="timestamp"): ascending; the default sort is not stable,
\* so rows of equal timestamp come out in an order the build decides: here
\* either the order of the table or its reverse.
RECURSIVE sort_values(_, _)
sort_values(rows, order) ==
    IF rows = << >>
    THEN << >>
    ELSE LET first ==
                 CHOOSE i \in 1..Len(rows) :
                     \A k \in 1..Len(rows) :
                         \/ rows[i].timestamp < rows[k].timestamp
                         \/ /\ rows[i].timestamp = rows[k].timestamp
                            /\ IF order = "stable" THEN i <= k ELSE i >= k
         IN  <<rows[first]>> \o sort_values(RemoveAt(rows, first), order)

\* Mutant of select_next_events: no lower end of the window.
select_next_events_no_lower_bound(events_df, sequence_id, entry_timestamp, time_window, order) ==
    LET in_window(e) ==
            /\ e.sequenceId = sequence_id
            /\ e.timestamp <= entry_timestamp + time_window
    IN  sort_values(SelectSeq(events_df, in_window), order)

\* Mutant of select_next_events: the sequence is not filtered on.
select_next_events_any_sequence(events_df, sequence_id, entry_timestamp, time_window, order) ==
    LET in_window(e) ==
            /\ e.timestamp >= entry_timestamp
            /\ e.timestamp <= entry_timestamp + time_window
    IN  sort_values(SelectSeq(events_df, in_window), order)

\* Mutant of select_next_events: the window opens after the entry's timestamp.
select_next_events_after_entry(events_df, sequence_id, entry_timestamp, time_window, order) ==
    LET in_window(e) ==
            /\ e.sequenceId = sequence_id
            /\ e.timestamp > entry_timestamp
            /\ e.timestamp <= entry_timestamp + time_window
    IN  sort_values(SelectSeq(events_df, in_window), order)

\* next_events as selected at the top of the function.
select_next_events(events_df, sequence_id, entry_timestamp, time_window, order) ==
    LET in_window(e) ==
            /\ e.sequenceId = sequence_id
            /\ e.timestamp >= entry_timestamp
            /\ e.timestamp <= entry_timestamp + time_window
    IN  sort_values(SelectSeq(events_df, in_window), order)

\* Mutant of another_entry: only what the entry detector returns counts as
\* another entry.
another_entry_detector_filter(next_events, entry_event_id) ==
    LET other(e) ==
            /\ e.eventId # entry_event_id
            /\ e.baseTypeName \in {"PASS", "DRIBBLE"}
            /\ e.resultId = 1
            /\ e.startPosXM < 1750
            /\ e.endPosXM >= 1750
    IN  SelectSeq(next_events, other)

\* another_entry: the other entry events of the window.
another_entry(next_events, entry_event_id) ==
    LET other(e) ==
            /\ e.eventId # entry_event_id
            /\ e.startPosXM < 1750
            /\ e.endPosXM >= 1750
    IN  SelectSeq(next_events, other)

\* Mutant of truncate_at_recycle: nothing is cut off.
truncate_at_recycle_keeps_all(next_events, entry_event_id) == next_events

\* Mutant of truncate_at_recycle: events at the recycled entry's timestamp stay.
truncate_at_recycle_inclusive(next_events, entry_event_id) ==
    LET others == another_entry(next_events, entry_event_id)
    IN  IF Len(others) > 0
        THEN LET recycled_entry_timestamp == others[1].timestamp
                 before(e) == e.timestamp <= recycled_entry_timestamp
             IN  SelectSeq(next_events, before)
        ELSE next_events

\* next_events after the recycle check.
truncate_at_recycle(next_events, entry_event_id) ==
    LET others == another_entry(next_events, entry_event_id)
    IN  IF Len(others) > 0
        THEN LET recycled_entry_timestamp == others[1].timestamp
                 before(e) == e.timestamp < recycled_entry_timestamp
             IN  SelectSeq(next_events, before)
        ELSE next_events

\* Mutants of the loop: one that goes on after a turnover (no break), one
\* that stops at the first shot.
RECURSIVE outcome_loop_variant(_, _, _, _, _, _)
outcome_loop_variant(next_events, i, team_name, found, break_on_turnover, break_on_shot) ==
    IF i > Len(next_events)
    THEN found
    ELSE LET event == next_events[i]
             is_turnover ==
                 /\ event.baseTypeName \in {"INTERCEPTION", "CLEARANCE"}
                 /\ event.teamName # team_name
             boxes ==
                 IF is_box_entry(event)
                 THEN Append(found.box_entries_found, event.eventId)
                 ELSE found.box_entries_found
         IN  IF is_turnover /\ break_on_turnover
             THEN [found EXCEPT !.turnover = TRUE]
             ELSE IF is_turnover
             THEN outcome_loop_variant(next_events, i + 1, team_name,
                      [found EXCEPT !.turnover = TRUE], break_on_turnover, break_on_shot)
             ELSE IF event.baseTypeName = "SHOT"
             THEN IF ~event.metrics.present
                  THEN [found EXCEPT !.raised = TRUE]
                  ELSE LET with_shot ==
                               [found EXCEPT
                                   !.box_entries_found = boxes,
                                   !.shots_found =
                                       Append(@, [xG |-> event.metrics.xG,
                                                  goal |-> event.resultId = 1])]
                       IN  IF break_on_shot
                           THEN with_shot
                           ELSE outcome_loop_variant(next_events, i + 1, team_name,
                                    with_shot, break_on_turnover, break_on_shot)
             ELSE outcome_loop_variant(next_events, i + 1, team_name,
                      [found EXCEPT !.box_entries_found = boxes],
                      break_on_turnover, break_on_shot)

outcome_loop_no_break(next_events, i, team_name, found) ==
    outcome_loop_variant(next_events, i, team_name, found, FALSE, FALSE)

outcome_loop_stops_at_shot(next_events, i, team_name, found) ==
    outcome_loop_variant(next_events, i, team_name, found, TRUE, TRUE)

\* The for loop over next_events from its i-th row on.  found holds
\* box_entries_found, shots_found, the turnover flag, and raised when
\* event["metrics"]["xG"] fails on a shot without metrics.
RECURSIVE outcome_loop(_, _, _, _)
outcome_loop(next_events, i, team_name, found) ==
    IF i > Len(next_events)
    THEN found
    ELSE LET event == next_events[i]
         IN  IF /\ event.baseTypeName \in {"INTERCEPTION", "CLEARANCE"}
                /\ event.teamName # team_name
             THEN [found EXCEPT !.turnover = TRUE]
             ELSE LET boxes ==
                          IF is_box_entry(event)
                          THEN Append(found.box_entries_found, event.eventId)
                          ELSE found.box_entries_found
                  IN  IF event.baseTypeName = "SHOT"
                      THEN IF ~event.metrics.present
                           THEN [found EXCEPT !.raised = TRUE]
                           ELSE outcome_loop(next_events, i + 1, team_name,
                                    [found EXCEPT
                                        !.box_entries_found = boxes,
                                        !.shots_found =
                                            Append(@, [xG |-> event.metrics.xG,
                                                       goal |-> event.resultId = 1])])
                      ELSE outcome_loop(next_events, i + 1, team_name,
                               [found EXCEPT !.box_entries_found = boxes])

RECURSIVE sum_xg(_)
sum_xg(shots) == IF shots = << >> THEN 0 ELSE shots[1].xG + sum_xg(Tail(shots))

RECURSIVE count_goals(_)
count_goals(shots) ==
    IF shots = << >> THEN 0
    ELSE (IF shots[1].goal THEN 1 ELSE 0) + count_goals(Tail(shots))

RaisedError(name) == [kind |-> "error", error |-> name]

\* Mutant of events_df_after_call: the table is sorted in place.
events_df_sorted_in_place(events_df, order) == sort_values(events_df, order)

\* The caller's table once the function has returned: the selections and
\* sort_values build new frames, events_df itself is never assigned to.
events_df_after_call(events_df, order) == events_df

analyze_sequence_outcome(team_name, events_df, sequence_id, entry_event_id, entry_timestamp, time_window, order) ==
    LET selected == select_next_events(events_df, sequence_id, entry_timestamp,
                                       time_window, order)
        recycled == Len(another_entry(selected, entry_event_id)) > 0
        next_events == truncate_at_recycle(selected, entry_event_id)
        found == outcome_loop(next_events, 1, team_name,
                     [box_entries_found |-> << >>, shots_found |-> << >>,
                      turnover |-> FALSE, raised |-> FALSE])
        box_entries_found == found.box_entries_found
        shots_found == found.shots_found
    IN  IF found.raised
        THEN RaisedError("TypeError")
        ELSE [ kind            |-> "outcome",
               box_entry       |-> Len(box_entries_found) > 0,
               box_entry_count |-> Len(box_entries_found),
               shot            |-> Len(shots_found) > 0,
               shot_count      |-> Len(shots_found),
               goal            |-> \E k \in 1..Len(shots_found) : shots_found[k].goal,
               goal_count      |-> count_goals(shots_found),
               total_xg        |-> sum_xg(shots_found),
               turnover        |-> found.turnover,
               recycled        |-> recycled ]

(***************************************************************************)
(* zone_entries_data.py : get_zone_entries_data                            *)
(***************************************************************************)
\* A row whose outcome tracing raises makes the whole call raise; a team
\* without entries gets the empty frame.
get_zone_entries_data(final_third_entries_df, events_df, team_name, order) ==
    LET of_team(r) == r.teamName = team_name
        entries_df == SelectSeq(final_third_entries_df, of_team)
        outcome(r) == analyze_sequence_outcome(team_name, events_df, r.sequenceId,
                          r.eventId, r.timestamp, DefaultTimeWindow, order)
        with_columns(r) ==
            LET o == outcome(r)
            IN  [ eventId      |-> r.eventId,
                  timestamp    |-> r.timestamp,
                  teamName     |-> r.teamName,
                  baseTypeName |-> r.baseTypeName,
                  resultName   |-> r.resultName,
                  startPosXM   |-> r.startPosXM,
                  endPosXM     |-> r.endPosXM,
                  startPosYM   |-> r.startPosYM,
                  endPosYM     |-> r.endPosYM,
                  sequenceId   |-> r.sequenceId,
                  xA           |-> r.xA,
                  entry_zone   |-> classify_entry_zone(r.endPosXM, r.endPosYM),
                  outcome      |-> o,
                  box_entry    |-> o.box_entry,
                  box_entry_count |-> o.box_entry_count,
                  shot         |-> o.shot,
                  shot_count   |-> o.shot_count,
                  goal         |-> o.goal,
                  goal_count   |-> o.goal_count,
                  total_xg     |-> o.total_xg,
                  turnover     |-> o.turnover,
                  recycled     |-> o.recycled ]
    IN  IF \E k \in 1..Len(entries_df) : outcome(entries_df[k]).kind = "error"
        THEN RaisedError("TypeError")
        ELSE [kind |-> "entries",
              rows |-> [k \in 1..Len(entries_df) |-> with_columns(entries_df[k])]]

(***************************************************************************)
(* float64 arithmetic of the statistics.  A non-negative double is held as *)
(* its 53 mantissa bits (most significant first, the first bit 1) and its  *)
(* exponent: value = 1.b2 b3 ... b53 x 2^exponent.  Zero has all bits 0.   *)
(* Results are rounded to nearest, ties to even, as the hardware does.     *)
(***************************************************************************)
MantissaBits == 53

NaN == [nan |-> TRUE, exponent |-> 0, mantissa |-> << >>]
FloatZero == [nan |-> FALSE, exponent |-> 0, mantissa |-> [i \in 1..MantissaBits |-> 0]]

\* a / b brought to b <= a < 2b by powers of two; e counts them.
RECURSIVE float_normalise(_, _, _)
float_normalise(a, b, e) ==
    IF a >= 2 * b THEN float_normalise(a, 2 * b, e + 1)
    ELSE IF a < b THEN float_normalise(2 * a, b, e - 1)
    ELSE <<a, b, e>>

\* The next n quotient bits of r / b (0 <= r < b), then whether a remainder is left.
RECURSIVE quotient_bits(_, _, _)
quotient_bits(r, b, n) ==
    IF n = 0
    THEN <<IF r # 0 THEN 1 ELSE 0>>
    ELSE IF 2 * r >= b
         THEN <<1>> \o quotient_bits(2 * r - b, b, n - 1)
         ELSE <<0>> \o quotient_bits(2 * r, b, n - 1)

\* bits + 1 as a binary number of the same length; an overflow wraps to zeros.
RECURSIVE bits_increment(_)
bits_increment(bits) ==
    IF bits = << >>
    THEN << >>
    ELSE IF bits[Len(bits)] = 0
         THEN SubSeq(bits, 1, Len(bits) - 1) \o <<1>>
         ELSE bits_increment(SubSeq(bits, 1, Len(bits) - 1)) \o <<0>>

\* Round a bit string that starts with 1 (value 1.b2 b3 ... x 2^e) to 53 bits;
\* sticky tells that non-zero bits follow the string.
float_round(bits, e, sticky) ==
    LET padded == bits \o [i \in 1..(MantissaBits + 1) |-> 0]
        kept == SubSeq(padded, 1, MantissaBits)
        round_bit == padded[MantissaBits + 1]
        rest == \/ sticky
                \/ \E i \in (MantissaBits + 2)..Len(bits) : bits[i] = 1
        up == round_bit = 1 /\ (rest \/ kept[MantissaBits] = 1)
        bumped == bits_increment(kept)
    IN  IF ~up
        THEN [nan |-> FALSE, exponent |-> e, mantissa |-> kept]
        ELSE IF bumped[1] = 1
             THEN [nan |-> FALSE, exponent |-> e, mantissa |-> bumped]
             ELSE [nan |-> FALSE, exponent |-> e + 1,
                   mantissa |-> <<1>> \o SubSeq(bumped, 2, MantissaBits)]

\* Mutant of float_div: the quotient is cut off after 53 bits, not rounded.
float_div_truncating(a, b) ==
    IF a = 0
    THEN FloatZero
    ELSE LET n == float_normalise(a, b, 0)
             q == quotient_bits(n[1] - n[2], n[2], MantissaBits)
         IN  [nan |-> FALSE, exponent |-> n[3],
              mantissa |-> <<1>> \o SubSeq(q, 1, MantissaBits - 1)]

\* a / b of two integers a >= 0, b > 0 (int64 columns divide as float64).
float_div(a, b) ==
    IF a = 0
    THEN FloatZero
    ELSE LET n == float_normalise(a, b, 0)
             q == quotient_bits(n[1] - n[2], n[2], MantissaBits)
         IN  float_round(<<1>> \o SubSeq(q, 1, MantissaBits), n[3], q[MantissaBits + 1] = 1)

\* bits[1..i] x n + carry for a small n >= 1, from bit i down; the carry left
\* over is returned in front as a number.
RECURSIVE bits_times(_, _, _, _)
bits_times(bits, i, n, carry) ==
    IF i = 0
    THEN <<carry>>
    ELSE LET v == bits[i] * n + carry
         IN  IF v % 2 = 0
             THEN bits_times(bits, i - 1, n, v \div 2) \o <<0>>
             ELSE bits_times(bits, i - 1, n, v \div 2) \o <<1>>

\* A number k >= 0 in binary, most significant bit first, no leading zeros.
RECURSIVE to_bits(_)
to_bits(k) == IF k = 0 THEN << >> ELSE to_bits(k \div 2) \o <<k % 2>>

\* f * n for an integer n >= 1 (the int is taken as the double n).
float_mul_int(f, n) ==
    IF f.nan THEN NaN
    ELSE IF f = FloatZero THEN FloatZero
    ELSE LET p == bits_times(f.mantissa, Len(f.mantissa), n, 0)
             head == to_bits(p[1])
             all == head \o SubSeq(p, 2, Len(p))
         IN  float_round(all, f.exponent + Len(head), FALSE)

\* x + y of two bit strings of one length, from bit i down with a carry; the
\* carry left over is returned in front.
RECURSIVE bits_add(_, _, _, _)
bits_add(x, y, i, carry) ==
    IF i = 0
    THEN <<carry>>
    ELSE LET v == x[i] + y[i] + carry
         IN  IF v % 2 = 0
             THEN bits_add(x, y, i - 1, v \div 2) \o <<0>>
             ELSE bits_add(x, y, i - 1, v \div 2) \o <<1>>

\* f + g of two doubles that are not NaN.
float_add(f, g) ==
    IF f = FloatZero THEN g
    ELSE IF g = FloatZero THEN f
    ELSE LET e == IF f.exponent >= g.exponent THEN f.exponent ELSE g.exponent
             df == e - f.exponent
             dg == e - g.exponent
             x == [i \in 1..df |-> 0] \o f.mantissa \o [i \in 1..dg |-> 0]
             y == [i \in 1..dg |-> 0] \o g.mantissa \o [i \in 1..df |-> 0]
             sum == bits_add(x, y, Len(x), 0)
         IN  IF sum[1] = 1
             THEN float_round(sum, e + 1, FALSE)
             ELSE float_round(SubSeq(sum, 2, Len(sum)), e, FALSE)

\* The first i bits of a bit string as a number.
RECURSIVE bits_value(_, _)
bits_value(bits, i) ==
    IF i = 0 THEN 0 ELSE 2 * bits_value(bits, i - 1) + bits[i]

\* The integer nearest to 1.b2 b3 ... x 2^e (bits starts with 1, and the
\* integer part lies within the string), a tie going to the even one.
round_half_even(bits, e) ==
    LET whole == IF e < 0 THEN 0 ELSE bits_value(bits, e + 1)
        half == e + 2 <= Len(bits) /\ bits[e + 2] = 1
        rest == \E i \in (e + 3)..Len(bits) : bits[i] = 1
    IN  IF e < -1
        THEN 0
        ELSE IF half /\ (rest \/ whole % 2 = 1) THEN whole + 1 ELSE whole

\* round(x, 2) of a Python float x >= 0: the double nearest to the two-decimal
\* number nearest to the exact value of x (a tie going to the even one).
round_float(x) ==
    IF x.nan THEN NaN
    ELSE IF x = FloatZero THEN FloatZero
    ELSE LET p == bits_times(x.mantissa, Len(x.mantissa), 100, 0)
             head == to_bits(p[1])
             all == head \o SubSeq(p, 2, Len(p))
         IN  float_div(round_half_even(all, x.exponent + Len(head)), 100)

\* round(x, 2) of a numpy float64 x >= 0: rint(x * 100) / 100, the product
\* rounded to a double before rint.
round_float64(x) ==
    IF x.nan THEN NaN
    ELSE IF x = FloatZero THEN FloatZero
    ELSE LET scaled == float_mul_int(x, 100)
         IN  float_div(round_half_even(scaled.mantissa, scaled.exponent), 100)

(***************************************************************************)
(* calculate_entry_zone_stats.py : calculate_entry_zone_stats              *)
(*                                                                         *)
(* total_xg stays a sum in thousandths; the inputs keep every xG a         *)
(* multiple of 0.125, which a double holds exactly, so that                *)
(* total_xg / n is the rounded quotient of the integers total_xg and       *)
(* 1000 n.                                                                 *)
(***************************************************************************)

\* Mutant of zone_keys: every zone gets a group, observed in the frame or not.
zone_keys_all_zones(entries_df) == <<"center", "left", "right">>

\* groupby('entry_zone'): the keys are the zones that occur in the frame, in
\* sorted order.
zone_keys(entries_df) ==
    LET occurs(z) == \E i \in 1..Len(entries_df) : entries_df[i].entry_zone = z
    IN  SelectSeq(<<"center", "left", "right">>, occurs)

\* The sum of a series of integers.
RECURSIVE series_sum(_)
series_sum(values) ==
    IF values = << >> THEN 0 ELSE values[1] + series_sum(Tail(values))

\* Mutant of flag_sum: the boolean column is aggregated with 'count'.
flag_sum_counts_rows(rows, column) == Len(rows)

\* 'sum' over an integer column, and over a boolean column (True sums as 1).
column_sum(rows, column) == series_sum([i \in 1..Len(rows) |-> rows[i][column]])
flag_sum(rows, column) ==
    series_sum([i \in 1..Len(rows) |-> IF rows[i][column] THEN 1 ELSE 0])

\* Mutant of percentage: the fraction is not scaled to a percentage.
percentage_not_scaled(part, total) == float_div(part, total)

\* (part / total) * 100
percentage(part, total) == float_mul_int(float_div(part, total), 100)

\* Mutant of xg_per_shot: a zone without shots gets 0.
xg_per_shot_zero_filled(total_xg, total_shots) ==
    IF total_shots = 0 THEN FloatZero ELSE float_div(total_xg, 1000 * total_shots)

\* total_xg / total_shots.replace(0, nan)
xg_per_shot(total_xg, total_shots) ==
    IF total_shots = 0 THEN NaN ELSE float_div(total_xg, 1000 * total_shots)

calculate_entry_zone_stats(entries_df) ==
    LET keys == zone_keys(entries_df)
        summary(z) ==
            LET in_group(r) == r.entry_zone = z
                group == SelectSeq(entries_df, in_group)
                total_entries == Len(group)
                entries_with_shot == flag_sum(group, "shot")
                total_shots == column_sum(group, "shot_count")
                entries_with_box_entry == flag_sum(group, "box_entry")
                total_box_entries == column_sum(group, "box_entry_count")
                total_xg_sum == column_sum(group, "total_xg")
                total_turnovers == flag_sum(group, "turnover")
                total_recycles == flag_sum(group, "recycled")
            IN  [ entry_zone             |-> z,
                  total_xg               |-> total_xg_sum,
                  total_entries          |-> total_entries,
                  entries_with_shot      |-> entries_with_shot,
                  total_shots            |-> total_shots,
                  shot_rate              |-> percentage(entries_with_shot, total_entries),
                  xg_per_entry           |-> float_div(total_xg_sum, 1000 * total_entries),
                  xg_per_shot            |-> xg_per_shot(total_xg_sum, total_shots),
                  entries_with_box_entry |-> entries_with_box_entry,
                  total_box_entries      |-> total_box_entries,
                  box_entry_rate         |-> percentage(entries_with_box_entry, total_entries),
                  total_turnovers        |-> total_turnovers,
                  turnover_rate          |-> percentage(total_turnovers, total_entries),
                  total_recycles         |-> total_recycles,
                  recycle_rate           |-> percentage(total_recycles, total_entries) ]
    IN  [kind |-> "stats", rows |-> [i \in 1..Len(keys) |-> summary(keys[i])]]

(***************************************************************************)
(* dominance_metrics.py                                                    *)
(***************************************************************************)

\* One record of events.json with the columns the dominance metrics read;
\* eventId is set when the table is built.
MatchEvent(type, team, resultId, sx, ex, subTypeId, startTimeMs, endTimeMs) ==
    [ eventId      |-> 0,
      teamName     |-> team,
      baseTypeName |-> type,
      resultId     |-> resultId,
      resultName   |-> ResultName(resultId),
      startPosXM   |-> sx,
      endPosXM     |-> ex,
      subTypeId    |-> subTypeId,
      startTimeMs  |-> startTimeMs,
      endTimeMs    |-> endTimeMs ]

\* Mutant of calculate_possession: the total runs over every event of the
\* table, not over the possession events only.
calculate_possession_total_of_all_events(events_df, team1_name, team2_name) ==
    LET possession_events == {"PASS", "DRIBBLE", "TAKE_ON", "CARRY", "TOUCH"}
        is_possession(e) == e.baseTypeName \in possession_events
        poss_df == SelectSeq(events_df, is_possession)
        duration_sum(rows) ==
            series_sum([i \in 1..Len(rows) |-> rows[i].endTimeMs - rows[i].startTimeMs])
        of_team1(e) == e.teamName = team1_name
        of_team2(e) == e.teamName = team2_name
        team1_possession_duration == duration_sum(SelectSeq(poss_df, of_team1))
        team2_possession_duration == duration_sum(SelectSeq(poss_df, of_team2))
        total_possession_duration == duration_sum(events_df)
    IN  IF total_possession_duration = 0
        THEN [kind |-> "possession",
              team1_possession_percentage |-> NaN,
              team2_possession_percentage |-> NaN]
        ELSE [kind |-> "possession",
              team1_possession_percentage |->
                  float_mul_int(float_div(team1_possession_duration,
                                          total_possession_duration), 100),
              team2_possession_percentage |->
                  float_mul_int(float_div(team2_possession_duration,
                                          total_possession_duration), 100)]

\* The sums are numpy integers: with a total of 0 the quotient is NaN and
\* nothing is raised.
calculate_possession(events_df, team1_name, team2_name) ==
    LET possession_events == {"PASS", "DRIBBLE", "TAKE_ON", "CARRY", "TOUCH"}
        is_possession(e) == e.baseTypeName \in possession_events
        poss_df == SelectSeq(events_df, is_possession)
        duration_sum(rows) ==
            series_sum([i \in 1..Len(rows) |-> rows[i].endTimeMs - rows[i].startTimeMs])
        of_team1(e) == e.teamName = team1_name
        of_team2(e) == e.teamName = team2_name
        team1_possession_duration == duration_sum(SelectSeq(poss_df, of_team1))
        team2_possession_duration == duration_sum(SelectSeq(poss_df, of_team2))
        total_possession_duration == duration_sum(poss_df)
    IN  IF total_possession_duration = 0
        THEN [kind |-> "possession",
              team1_possession_percentage |-> NaN,
              team2_possession_percentage |-> NaN]
        ELSE [kind |-> "possession",
              team1_possession_percentage |->
                  float_mul_int(float_div(team1_possession_duration,
                                          total_possession_duration), 100),
              team2_possession_percentage |->
                  float_mul_int(float_div(team2_possession_duration,
                                          total_possession_duration), 100)]

\* The counts are Python integers: a total of 0 raises ZeroDivisionError.
calculate_field_tilt(events_df, team1_name, team2_name) ==
    LET in_final_third(e) == e.baseTypeName = "PASS" /\ e.endPosXM >= 1750
        passes_in_final_third == SelectSeq(events_df, in_final_third)
        of_team1(e) == e.teamName = team1_name
        of_team2(e) == e.teamName = team2_name
        total_passes == Len(passes_in_final_third)
        team1_passes == Len(SelectSeq(passes_in_final_third, of_team1))
        team2_passes == Len(SelectSeq(passes_in_final_third, of_team2))
    IN  IF total_passes = 0
        THEN RaisedError("ZeroDivisionError")
        ELSE [kind |-> "field_tilt",
              team1_field_tilt |-> float_mul_int(float_div(team1_passes, total_passes), 100),
              team2_field_tilt |-> float_mul_int(float_div(team2_passes, total_passes), 100)]

calculate_progressive_passes(events_df, team1_name, team2_name) ==
    LET successful_pass(e) == e.baseTypeName = "PASS" /\ e.resultName = "SUCCESSFUL"
        passes == SelectSeq(events_df, successful_pass)
        progress(e) == e.endPosXM - e.startPosXM
        outside(e) == e.endPosXM < 1750 /\ progress(e) >= 1000
        inside(e) == e.endPosXM < 1750 /\ progress(e) >= 500
        prog_passes_outside_final_third == SelectSeq(passes, outside)
        prog_passes_in_final_third == SelectSeq(passes, inside)
        of_team1(e) == e.teamName = team1_name
        of_team2(e) == e.teamName = team2_name
        team1_outside == Len(SelectSeq(prog_passes_outside_final_third, of_team1))
        team2_outside == Len(SelectSeq(prog_passes_outside_final_third, of_team2))
        team1_inside == Len(SelectSeq(prog_passes_in_final_third, of_team1))
        team2_inside == Len(SelectSeq(prog_passes_in_final_third, of_team2))
    IN  [kind |-> "progressive_passes",
         team1_prog_passes |-> team1_outside + team1_inside,
         team2_prog_passes |-> team2_outside + team2_inside,
         team1_prog_passes_outside_final_third |-> team1_outside,
         team2_prog_passes_outside_final_third |-> team2_outside,
         team1_prog_passes_in_final_third |-> team1_inside,
         team2_prog_passes_in_final_third |-> team2_inside]

DefensiveSubTypes == {400, 401, 500, 501, 700, 1302}

\* Mutant of calculate_ppda: each team's own passes over its own defensive actions.
calculate_ppda_own_passes(events_df, team1_name, team2_name) ==
    LET is_pass(e) ==
            /\ e.baseTypeName = "PASS"
            /\ e.resultName = "SUCCESSFUL"
            /\ e.startPosXM < 1050
        is_clearance(e) == e.baseTypeName = "CLEARANCE" /\ e.startPosXM < 1050
        is_defensive_action(e) ==
            e.subTypeId \in DefensiveSubTypes /\ e.startPosXM >= -1050
        of_team1(e) == e.teamName = team1_name
        of_team2(e) == e.teamName = team2_name
        passes_df == SelectSeq(events_df, is_pass)
        clearances_df == SelectSeq(events_df, is_clearance)
        defensive_actions_df == SelectSeq(events_df, is_defensive_action)
        passes_team1 == Len(SelectSeq(passes_df, of_team1))
                            + Len(SelectSeq(clearances_df, of_team1))
        passes_team2 == Len(SelectSeq(passes_df, of_team2))
                            + Len(SelectSeq(clearances_df, of_team2))
        defensive_actions_team1 == Len(SelectSeq(defensive_actions_df, of_team1))
        defensive_actions_team2 == Len(SelectSeq(defensive_actions_df, of_team2))
    IN  IF defensive_actions_team1 = 0 \/ defensive_actions_team2 = 0
        THEN RaisedError("ZeroDivisionError")
        ELSE [kind |-> "ppda",
              team1_ppda |-> float_div(passes_team1, defensive_actions_team1),
              team2_ppda |-> float_div(passes_team2, defensive_actions_team2)]

\* The counts are Python integers: no defensive action of a team raises
\* ZeroDivisionError.
calculate_ppda(events_df, team1_name, team2_name) ==
    LET is_pass(e) ==
            /\ e.baseTypeName = "PASS"
            /\ e.resultName = "SUCCESSFUL"
            /\ e.startPosXM < 1050
        is_clearance(e) == e.baseTypeName = "CLEARANCE" /\ e.startPosXM < 1050
        is_defensive_action(e) ==
            e.subTypeId \in DefensiveSubTypes /\ e.startPosXM >= -1050
        of_team1(e) == e.teamName = team1_name
        of_team2(e) == e.teamName = team2_name
        passes_df == SelectSeq(events_df, is_pass)
        clearances_df == SelectSeq(events_df, is_clearance)
        defensive_actions_df == SelectSeq(events_df, is_defensive_action)
        passes_team1 == Len(SelectSeq(passes_df, of_team1))
                            + Len(SelectSeq(clearances_df, of_team1))
        passes_team2 == Len(SelectSeq(passes_df, of_team2))
                            + Len(SelectSeq(clearances_df, of_team2))
        defensive_actions_team1 == Len(SelectSeq(defensive_actions_df, of_team1))
        defensive_actions_team2 == Len(SelectSeq(defensive_actions_df, of_team2))
    IN  IF defensive_actions_team1 = 0 \/ defensive_actions_team2 = 0
        THEN RaisedError("ZeroDivisionError")
        ELSE [kind |-> "ppda",
              team1_ppda |-> float_div(passes_team2, defensive_actions_team1),
              team2_ppda |-> float_div(passes_team1, defensive_actions_team2)]

\* One record of events.json with every column calculate_dominance_metrics
\* reads; shotTypeName is "None" on an event that is no shot.
GameEvent(type, team, resultId, sx, sy, ex, subTypeId, startTimeMs, endTimeMs, metrics, shotTypeName) ==
    [ eventId      |-> 0,
      timestamp    |-> startTimeMs,
      teamName     |-> team,
      baseTypeName |-> type,
      resultId     |-> resultId,
      resultName   |-> ResultName(resultId),
      startPosXM   |-> sx,
      endPosXM     |-> ex,
      startPosYM   |-> sy,
      endPosYM     |-> sy,
      sequenceId   |-> 1,
      metrics      |-> metrics,
      subTypeId    |-> subTypeId,
      startTimeMs  |-> startTimeMs,
      endTimeMs    |-> endTimeMs,
      shotTypeName |-> shotTypeName ]

\* The except clause of calculate_successful_passes logs and does not raise;
\* the filters of the try block raise nothing on a table that has the columns.
calculate_successful_passes(events_df, team1_name, team2_name) ==
    LET successful_pass(e) == e.baseTypeName = "PASS" /\ e.resultName = "SUCCESSFUL"
        passes == SelectSeq(events_df, successful_pass)
        of_team1(e) == e.teamName = team1_name
        of_team2(e) == e.teamName = team2_name
    IN  [kind |-> "successful_passes",
         team1_successful_passes |-> Len(SelectSeq(passes, of_team1)),
         team2_successful_passes |-> Len(SelectSeq(passes, of_team2))]

calculate_final_third_entries(events_df, team1_name, team2_name) ==
    LET final_third_entries_df == get_final_third_entries(events_df)
        of_team1(e) == e.teamName = team1_name
        of_team2(e) == e.teamName = team2_name
    IN  [kind |-> "final_third_entries",
         team1_final_third_entries |-> Len(SelectSeq(final_third_entries_df, of_team1)),
         team2_final_third_entries |-> Len(SelectSeq(final_third_entries_df, of_team2))]

calculate_box_touches(events_df, team1_name, team2_name) ==
    LET touch_events == {"PASS", "DRIBBLE", "TAKE_ON", "CARRY", "TOUCH"}
        box_touch(e) ==
            /\ e.baseTypeName \in touch_events
            /\ e.startPosXM >= 3600
            /\ e.startPosYM >= -2016
            /\ e.startPosYM <= 2016
        box_touches_df == SelectSeq(events_df, box_touch)
        of_team1(e) == e.teamName = team1_name
        of_team2(e) == e.teamName = team2_name
    IN  [kind |-> "box_touches",
         team1_box_touches |-> Len(SelectSeq(box_touches_df, of_team1)),
         team2_box_touches |-> Len(SelectSeq(box_touches_df, of_team2))]

\* xG sums stay in thousandths.
calculate_shot_metrics(events_df, team1_name, team2_name) ==
    LET is_shot(e) == e.baseTypeName = "SHOT"
        shot_events == SelectSeq(events_df, is_shot)
        xG(e) == IF e.metrics.present THEN e.metrics.xG ELSE 0
        of_team1(e) == e.teamName = team1_name
        of_team2(e) == e.teamName = team2_name
        on_target(e) == e.shotTypeName = "ON_TARGET"
        blocked(e) == e.shotTypeName = "BLOCKED"
        team1_shot_events == SelectSeq(shot_events, of_team1)
        team2_shot_events == SelectSeq(shot_events, of_team2)
    IN  [kind |-> "shot_metrics",
         team1_xg |-> series_sum([i \in 1..Len(team1_shot_events) |-> xG(team1_shot_events[i])]),
         team2_xg |-> series_sum([i \in 1..Len(team2_shot_events) |-> xG(team2_shot_events[i])]),
         team1_total_shots |-> Len(team1_shot_events),
         team2_total_shots |-> Len(team2_shot_events),
         team1_on_target_shots |-> Len(SelectSeq(team1_shot_events, on_target)),
         team2_on_target_shots |-> Len(SelectSeq(team2_shot_events, on_target)),
         team1_blocked_shots |-> Len(SelectSeq(team1_shot_events, blocked)),
         team2_blocked_shots |-> Len(SelectSeq(team2_shot_events, blocked))]

\* The steps run in the order of the source; the first one that raises ends
\* the call, and the except clause raises the same error again.  Possession
\* comes from numpy and is rounded as a float64, field tilt and PPDA are
\* Python floats; pp_ratio divides two Python integers and is not rounded.
calculate_dominance_metrics(events_df, team1_name, team2_name) ==
    LET possession == calculate_possession(events_df, team1_name, team2_name)
        field_tilt == calculate_field_tilt(events_df, team1_name, team2_name)
        successful_passes == calculate_successful_passes(events_df, team1_name, team2_name)
        final_third_entries == calculate_final_third_entries(events_df, team1_name, team2_name)
        box_touches == calculate_box_touches(events_df, team1_name, team2_name)
        prog_passes == calculate_progressive_passes(events_df, team1_name, team2_name)
        shot_metrics == calculate_shot_metrics(events_df, team1_name, team2_name)
        ppda == calculate_ppda(events_df, team1_name, team2_name)
        team1_metrics ==
            [ xG                     |-> round_float64(float_div(shot_metrics.team1_xg, 1000)),
              total_shots            |-> shot_metrics.team1_total_shots,
              team                   |-> team1_name,
              possession             |-> round_float64(possession.team1_possession_percentage),
              field_tilt             |-> round_float(field_tilt.team1_field_tilt),
              successful_passes      |-> successful_passes.team1_successful_passes,
              final_third_entries    |-> final_third_entries.team1_final_third_entries,
              box_touches            |-> box_touches.team1_box_touches,
              progressive_passes     |-> prog_passes.team1_prog_passes,
              pp_ratio               |-> float_div(prog_passes.team1_prog_passes,
                                                   successful_passes.team1_successful_passes),
              pp_outside_final_third |-> prog_passes.team1_prog_passes_outside_final_third,
              pp_in_final_third      |-> prog_passes.team1_prog_passes_in_final_third,
              on_target_shots        |-> shot_metrics.team1_on_target_shots,
              blocked_shots          |-> shot_metrics.team1_blocked_shots,
              ppda                   |-> round_float(ppda.team1_ppda) ]
        team2_metrics ==
            [ xG                     |-> round_float64(float_div(shot_metrics.team2_xg, 1000)),
              total_shots            |-> shot_metrics.team2_total_shots,
              team                   |-> team2_name,
              possession             |-> round_float64(possession.team2_possession_percentage),
              field_tilt             |-> round_float(field_tilt.team2_field_tilt),
              successful_passes      |-> successful_passes.team2_successful_passes,
              final_third_entries    |-> final_third_entries.team2_final_third_entries,
              box_touches            |-> box_touches.team2_box_touches,
              progressive_passes     |-> prog_passes.team2_prog_passes,
              pp_ratio               |-> float_div(prog_passes.team2_prog_passes,
                                                   successful_passes.team2_successful_passes),
              pp_outside_final_third |-> prog_passes.team2_prog_passes_outside_final_third,
              pp_in_final_third      |-> prog_passes.team2_prog_passes_in_final_third,
              on_target_shots        |-> shot_metrics.team2_on_target_shots,
              blocked_shots          |-> shot_metrics.team2_blocked_shots,
              ppda                   |-> round_float(ppda.team2_ppda) ]
    IN  IF field_tilt.kind = "error"
        THEN field_tilt
        ELSE IF \/ successful_passes.team1_successful_passes = 0
                \/ successful_passes.team2_successful_passes = 0
             THEN RaisedError("ZeroDivisionError")
             ELSE IF ppda.kind = "error"
                  THEN ppda
                  ELSE [kind |-> "dominance_metrics",
                        rows |-> <<team1_metrics, team2_metrics>>]

(***************************************************************************)
(* territorial_heatmap_data.py : get_territorial_heatmap_data              *)
(*                                                                         *)
(* Every row of the table has a start position, so the notna() filters     *)
(* keep every row.                                                         *)
(***************************************************************************)
get_territorial_heatmap_data(events_df, team1_name, team2_name) ==
    LET possession_events == {"PASS", "DRIBBLE", "TAKE_ON", "CARRY", "TOUCH"}
        of_team1(e) == e.teamName = team1_name /\ e.baseTypeName \in possession_events
        of_team2(e) == e.teamName = team2_name /\ e.baseTypeName \in possession_events
        df_team1 == SelectSeq(events_df, of_team1)
        df_team2 == SelectSeq(events_df, of_team2)
        flipped == [i \in 1..Len(df_team2) |->
                       [df_team2[i] EXCEPT !.startPosXM = @ * (-1), !.startPosYM = @ * (-1)]]
    IN  [kind |-> "heatmap", first |-> df_team1, second |-> flipped]

\* Mutant of events_df_after_heatmap: df_team2 is no copy, the flip reaches
\* the rows of the caller's table.
events_df_flipped_in_place(events_df, team2_name) ==
    LET possession_events == {"PASS", "DRIBBLE", "TAKE_ON", "CARRY", "TOUCH"}
        of_team2(e) == e.teamName = team2_name /\ e.baseTypeName \in possession_events
    IN  [i \in 1..Len(events_df) |->
            IF of_team2(events_df[i])
            THEN [events_df[i] EXCEPT !.startPosXM = @ * (-1), !.startPosYM = @ * (-1)]
            ELSE events_df[i]]

\* The caller's table after get_territorial_heatmap_data: df_team1 and
\* df_team2 are copies (.copy()) and the flip is assigned to the copy.
events_df_after_heatmap(events_df, team2_name) == events_df

(***************************************************************************)
(* block_by_ball_position.py                                               *)
(*                                                                         *)
(* A row of the tracking table is one object (a player or the ball) in one *)
(* frame.  A mean is held as the sum and the count it is the quotient of   *)
(* (count 0 is NaN), an area as twice the area over 2.                     *)
(***************************************************************************)
None == [kind |-> "None"]

TrackingRow(frame_id, team_name, shirt_number, x, y) ==
    [ x            |-> x,
      y            |-> y,
      team_name    |-> team_name,
      frame_id     |-> frame_id,
      shirt_number |-> shirt_number ]

\* Mutant of get_ball_zone: the upper bounds are exclusive.
RECURSIVE ball_zone_loop_half_open(_, _, _, _)
ball_zone_loop_half_open(zones, i, ball_x, ball_y) ==
    IF i > Len(zones)
    THEN "build_up_zone"
    ELSE IF /\ zones[i].x[1] <= ball_x /\ ball_x < zones[i].x[2]
            /\ zones[i].y[1] <= ball_y /\ ball_y < zones[i].y[2]
         THEN zones[i].name
         ELSE ball_zone_loop_half_open(zones, i + 1, ball_x, ball_y)

get_ball_zone_half_open(ball_x, ball_y, zones) ==
    ball_zone_loop_half_open(zones, 1, ball_x, ball_y)

\* The loop of get_ball_zone from the i-th zone on.
RECURSIVE ball_zone_loop(_, _, _, _)
ball_zone_loop(zones, i, ball_x, ball_y) ==
    IF i > Len(zones)
    THEN "build_up_zone"
    ELSE LET x_min == zones[i].x[1]
             x_max == zones[i].x[2]
             y_min == zones[i].y[1]
             y_max == zones[i].y[2]
         IN  IF x_min <= ball_x /\ ball_x <= x_max /\ y_min <= ball_y /\ ball_y <= y_max
             THEN zones[i].name
             ELSE ball_zone_loop(zones, i + 1, ball_x, ball_y)

get_ball_zone(ball_x, ball_y, zones) == ball_zone_loop(zones, 1, ball_x, ball_y)

\* The loop of assign_zone_vectorized from the i-th zone on.
RECURSIVE assign_zone_loop(_, _, _)
assign_zone_loop(zones, i, row) ==
    IF i > Len(zones)
    THEN "build_up_zone"
    ELSE LET x_min == zones[i].x[1]
             x_max == zones[i].x[2]
             y_min == zones[i].y[1]
             y_max == zones[i].y[2]
         IN  IF x_min <= row.x /\ row.x <= x_max /\ y_min <= row.y /\ row.y <= y_max
             THEN zones[i].name
             ELSE assign_zone_loop(zones, i + 1, row)

\* The inner function of analyze_block_by_ball_position; zones is the local
\* PitchZones.get_zones().
assign_zone_vectorized(row) == assign_zone_loop(get_zones, 1, row)

\* ConvexHull(points).volume of points that are not all on one line, as
\* twice the area: the shoelace sum over the hull's edges, each edge running
\* between two corners with every other point on its left or on it.
cross(p, q, r) == (q[1] - p[1]) * (r[2] - p[2]) - (q[2] - p[2]) * (r[1] - p[1])

RECURSIVE shoelace(_)
shoelace(edges) ==
    IF edges = {}
    THEN 0
    ELSE LET e == CHOOSE d \in edges : TRUE
         IN  e[1][1] * e[2][2] - e[2][1] * e[1][2] + shoelace(edges \ {e})

hull_volume(points) ==
    LET corners == {points[i] : i \in 1..Len(points)}
        between(p, q, r) ==
            (r[1] - p[1]) * (r[1] - q[1]) + (r[2] - p[2]) * (r[2] - q[2]) < 0
        is_edge(p, q) ==
            /\ p # q
            /\ \A r \in corners \ {p, q} :
                  \/ cross(p, q, r) > 0
                  \/ cross(p, q, r) = 0 /\ between(p, q, r)
    IN  shoelace({e \in corners \X corners : is_edge(e[1], e[2])})

\* Qhull cannot build a hull of points that all lie on one line (or in one
\* place): ConvexHull raises QhullError.
qhull_error(points) ==
    \A i \in 1..Len(points) : \A j \in 1..Len(points) : \A k \in 1..Len(points) :
        cross(points[i], points[j], points[k]) = 0

\* Mutant of calculate_convex_hull_area: the error of ConvexHull is raised
\* again, not swallowed.
calculate_convex_hull_area_reraising(points) ==
    IF Len(points) < 3
    THEN None
    ELSE IF qhull_error(points)
         THEN RaisedError("QhullError")
         ELSE [kind |-> "float", sum |-> hull_volume(points), count |-> 2]

\* The inner bare except turns the error of ConvexHull into None.
calculate_convex_hull_area(points) ==
    IF Len(points) < 3
    THEN None
    ELSE IF qhull_error(points)
         THEN None
         ELSE [kind |-> "float", sum |-> hull_volume(points), count |-> 2]

series_max(values) == CHOOSE v \in {values[i] : i \in 1..Len(values)} :
                          \A i \in 1..Len(values) : values[i] <= v
series_min(values) == CHOOSE v \in {values[i] : i \in 1..Len(values)} :
                          \A i \in 1..Len(values) : v <= values[i]
series_mean(values) == [sum |-> series_sum(values), count |-> Len(values)]

calculate_block_metrics(team_df) ==
    IF Len(team_df) < 3
    THEN None
    ELSE LET points == [i \in 1..Len(team_df) |-> <<team_df[i].x, team_df[i].y>>]
             xs == [i \in 1..Len(team_df) |-> team_df[i].x]
             ys == [i \in 1..Len(team_df) |-> team_df[i].y]
         IN  [ kind              |-> "block_metrics",
               area              |-> calculate_convex_hull_area(points),
               vertical_spread   |-> series_max(xs) - series_min(xs),
               horizontal_spread |-> series_max(ys) - series_min(ys),
               mean_x            |-> series_mean(xs),
               mean_y            |-> series_mean(ys),
               defensive_line    |-> series_max(xs) ]

\* Step of the slice possession_frame_ids[::10].
SampleStep == 10

\* Mutant of every_nth: every frame is sampled.
RECURSIVE every_nth_all(_, _, _)
every_nth_all(ids, i, step) ==
    IF i > Len(ids) THEN << >> ELSE <<ids[i]>> \o every_nth_all(ids, i + 1, step)

\* ids[i], ids[i + step], ..., (ids[::step] for i = 1).
RECURSIVE every_nth(_, _, _)
every_nth(ids, i, step) ==
    IF i > Len(ids) THEN << >> ELSE <<ids[i]>> \o every_nth(ids, i + step, step)

\* The frame loop from the i-th sampled frame on; the result is the results map.
RECURSIVE frame_loop(_, _, _, _, _)
frame_loop(sampled_frames, i, results_map, tracking_filtered, defending_team_name) ==
    IF i > Len(sampled_frames)
    THEN results_map
    ELSE LET frame_id == sampled_frames[i]
             is_ball(r) == r.frame_id = frame_id /\ r.team_name = "ball"
             is_defender(r) == r.frame_id = frame_id /\ r.team_name = defending_team_name
             ball_data == SelectSeq(tracking_filtered, is_ball)
             defenders == SelectSeq(tracking_filtered, is_defender)
             outfield(r) == r.shirt_number # 23
             outfield_defenders == SelectSeq(defenders, outfield)
             block_metrics == calculate_block_metrics(outfield_defenders)
             zone == assign_zone_vectorized(ball_data[1])
             positions_list ==
                 [k \in 1..Len(defenders) |->
                     [ x            |-> defenders[k].x,
                       y            |-> defenders[k].y,
                       shirt_number |-> defenders[k].shirt_number ]]
             saved ==
                 [results_map EXCEPT ![zone] =
                     [ positions     |-> @.positions \o positions_list,
                       block_metrics |-> Append(@.block_metrics, block_metrics),
                       frame_count   |-> @.frame_count + 1 ]]
             skipped ==
                 \/ ball_data = << >>
                 \/ defenders = << >>
                 \/ Len(defenders) < 3
                 \/ Len(outfield_defenders) < 3
                 \/ block_metrics = None
         IN  IF skipped
             THEN frame_loop(sampled_frames, i + 1, results_map,
                             tracking_filtered, defending_team_name)
             ELSE frame_loop(sampled_frames, i + 1, saved,
                             tracking_filtered, defending_team_name)

\* The results map of analyze_block_by_ball_position when the loop is over.
block_results(tracking_df, defending_team_name, possession_frame_ids, step) ==
    LET zones == get_zones
        sampled_frames == every_nth(possession_frame_ids, 1, step)
        sampled(r) == \E i \in 1..Len(sampled_frames) : r.frame_id = sampled_frames[i]
        tracking_filtered == SelectSeq(tracking_df, sampled)
        zone_names == {zones[i].name : i \in 1..Len(zones)} \cup {"build_up_zone"}
        empty == [zone_name \in zone_names |->
                     [positions |-> << >>, block_metrics |-> << >>, frame_count |-> 0]]
    IN  frame_loop(sampled_frames, 1, empty, tracking_filtered, defending_team_name)

\* The sum of quotients sum / count over a common denominator, from the i-th on.
RECURSIVE quotient_sum(_, _)
quotient_sum(values, i) ==
    IF i > Len(values)
    THEN [sum |-> 0, count |-> 1]
    ELSE LET rest == quotient_sum(values, i + 1)
         IN  [sum   |-> values[i].sum * rest.count + rest.sum * values[i].count,
              count |-> values[i].count * rest.count]

\* The mean of a column of means.
mean_of_quotients(values) ==
    LET total == quotient_sum(values, 1)
    IN  [sum |-> total.sum, count |-> total.count * Len(values)]

\* Mutant of block_summary: a zone without frames gets an entry as well.
block_summary_all_zones(results_map) ==
    [zone_name \in DOMAIN results_map |-> [frame_count |-> results_map[zone_name].frame_count]]

\* The summary built from the results map: the zones with frame_count 0 are
\* left out.
block_summary(results_map) ==
    LET kept == {zone_name \in DOMAIN results_map : results_map[zone_name].frame_count # 0}
        entry(data) ==
            LET positions == data.positions
                metrics == data.block_metrics
                shirts == {positions[k].shirt_number : k \in 1..Len(positions)}
                of_shirt(n) == LET is_n(q) == q.shirt_number = n
                               IN  SelectSeq(positions, is_n)
                column(rows, name) == [k \in 1..Len(rows) |-> rows[k][name]]
                has_area(m) == m.area # None
                areas == SelectSeq(metrics, has_area)
            IN  [ frame_count     |-> data.frame_count,
                  avg_positions   |->
                      [n \in shirts |->
                          [ x |-> series_mean(column(of_shirt(n), "x")),
                            y |-> series_mean(column(of_shirt(n), "y")) ]],
                  avg_compactness |->
                      [ area |-> [sum   |-> series_sum([k \in 1..Len(areas) |-> areas[k].area.sum]),
                                  count |-> 2 * Len(areas)],
                        vertical_spread   |-> series_mean(column(metrics, "vertical_spread")),
                        horizontal_spread |-> series_mean(column(metrics, "horizontal_spread")),
                        mean_x            |-> mean_of_quotients(column(metrics, "mean_x")),
                        mean_y            |-> mean_of_quotients(column(metrics, "mean_y")),
                        defensive_line    |-> series_mean(column(metrics, "defensive_line")) ] ]
    IN  [zone_name \in kept |-> entry(results_map[zone_name])]

analyze_block_by_ball_position(tracking_df, defending_team_name, possession_frame_ids) ==
    IF possession_frame_ids = None
    THEN RaisedError("ValueError")
    ELSE IF Len(tracking_df) = 0
         THEN RaisedError("ValueError")
         ELSE [kind    |-> "summary",
               summary |-> block_summary(block_results(tracking_df, defending_team_name,
                                                       possession_frame_ids.value, SampleStep))]

(***************************************************************************)
(* Inputs of the zone lookup: positions on and off the pitch, on and next  *)
(* to every boundary of the table.                                         *)
(***************************************************************************)
ZoneXs == {-6000, -4000, -1751, -1750, 0, 1749, 1750, 1751, 3000, 5250, 5251}
ZoneYs == {-3500, -3401, -3400, -1201, -1200, 0, 1199, 1200, 1201, 3400, 3401}

NoCall == [op |-> "none"]
NoRet  == [kind |-> "none"]

Init ==
    /\ pc = "start"
    /\ events = << >>
    /\ tie_order \in {"stable", "reversed"}
    /\ call = NoCall
    /\ ret = NoRet
    /\ window = << >>
    /\ scanned = << >>
    /\ results = << >>

\* PitchZones.get_zone_for_position(x, y)
CallGetZoneForPosition(x, y) ==
    /\ pc = "start"
    /\ pc' = "done"
    /\ call' = [op |-> "get_zone_for_position", x |-> x, y |-> y]
    /\ ret' = [kind |-> "zone", value |-> get_zone_for_position(x, y)]
    /\ window' = << >>
    /\ scanned' = << >>
    /\ results' = << >>
    /\ UNCHANGED <<events, tie_order>>

\* classify_entry_zone(x, y)
CallClassifyEntryZone(x, y) ==
    /\ pc = "start"
    /\ pc' = "done"
    /\ call' = [op |-> "classify_entry_zone", x |-> x, y |-> y]
    /\ ret' = [kind |-> "entry_zone", value |-> classify_entry_zone(x, y)]
    /\ window' = << >>
    /\ scanned' = << >>
    /\ results' = << >>
    /\ UNCHANGED <<events, tie_order>>

NextZone ==
    \/ \E x \in ZoneXs, y \in ZoneYs : CallGetZoneForPosition(x, y)
    \/ \E x \in ZoneXs, y \in ZoneYs : CallClassifyEntryZone(x, y)

SpecZone == Init /\ [][NextZone]_vars

(***************************************************************************)
(* Inputs of is_box_entry: start and end positions around the penalty box  *)
(***************************************************************************)
BoxXs == {3000, 3599, 3600, 3800, 4000, 4500, 5250, 5251}
BoxYs == {-2017, -2016, 0, 2016, 2017, 2500}

\* is_box_entry(event)
CallIsBoxEntry(event) ==
    /\ pc = "start"
    /\ pc' = "done"
    /\ call' = [op |-> "is_box_entry", event |-> event]
    /\ ret' = [kind |-> "bool", value |-> is_box_entry(event)]
    /\ window' = << >>
    /\ scanned' = << >>
    /\ results' = << >>
    /\ UNCHANGED <<events, tie_order>>

NextBox ==
    \E sx \in BoxXs, sy \in BoxYs, ex \in BoxXs, ey \in BoxYs :
        CallIsBoxEntry(Event("PASS", "Belgium", 1, sx, sy, ex, ey, 1, 0, Metrics(0, 0)))

SpecBox == Init /\ [][NextBox]_vars

(***************************************************************************)
(* Inputs of calculate_entry_zone_stats: frames of entries with their      *)
(* outcome columns, as get_zone_entries_data returns them for a team.  A   *)
(* frame is made of some rows of each kind below; a row without shots has  *)
(* total_xg 0, as every traced outcome has.                                *)
(***************************************************************************)

\* Most rows of an entries frame.
MaxEntries == 10

EntryRow(zone, shot_count, total_xg, box_entry_count, turnover, recycled) ==
    [ eventId         |-> 0,
      entry_zone      |-> zone,
      box_entry       |-> box_entry_count > 0,
      box_entry_count |-> box_entry_count,
      shot            |-> shot_count > 0,
      shot_count      |-> shot_count,
      total_xg        |-> total_xg,
      turnover        |-> turnover,
      recycled        |-> recycled ]

EntryRowKinds ==
    << EntryRow("left", 0, 0, 0, FALSE, FALSE),
       EntryRow("left", 1, 250, 1, FALSE, FALSE),
       EntryRow("left", 0, 0, 0, TRUE, TRUE),
       EntryRow("center", 2, 375, 2, TRUE, FALSE),
       EntryRow("center", 0, 0, 1, FALSE, TRUE),
       EntryRow("right", 0, 0, 0, FALSE, TRUE) >>

\* counts[k] rows of the k-th kind, kind after kind, numbered as in a frame.
RECURSIVE rows_of_kinds(_, _)
rows_of_kinds(counts, k) ==
    IF k > Len(counts)
    THEN << >>
    ELSE [i \in 1..counts[k] |-> EntryRowKinds[k]] \o rows_of_kinds(counts, k + 1)

entries_frame(counts) ==
    LET rows == rows_of_kinds(counts, 1)
    IN  [i \in 1..Len(rows) |-> [rows[i] EXCEPT !.eventId = i]]

\* calculate_entry_zone_stats(entries_df)
CallCalculateEntryZoneStats(entries_df) ==
    /\ pc = "start"
    /\ pc' = "done"
    /\ call' = [op |-> "calculate_entry_zone_stats", entries_df |-> entries_df]
    /\ ret' = calculate_entry_zone_stats(entries_df)
    /\ window' = << >>
    /\ scanned' = << >>
    /\ results' = << >>
    /\ UNCHANGED <<events, tie_order>>

NextStats ==
    /\ pc = "start"
    /\ \E c1 \in 0..MaxEntries :
       \E c2 \in 0..(MaxEntries - c1) :
       \E c3 \in 0..(MaxEntries - c1 - c2) :
       \E c4 \in 0..(MaxEntries - c1 - c2 - c3) :
       \E c5 \in 0..(MaxEntries - c1 - c2 - c3 - c4) :
       \E c6 \in 0..(MaxEntries - c1 - c2 - c3 - c4 - c5) :
          CallCalculateEntryZoneStats(entries_frame(<<c1, c2, c3, c4, c5, c6>>))

SpecStats == Init /\ [][NextStats]_vars

(***************************************************************************)
(* The analysis run: the loader builds the event table once, then an       *)
(* analysis function is called on it.  No analysis function writes to the  *)
(* table or keeps state of its own, so a run is followed up to the return  *)
(* of its first call; every further call would start from the same table.  *)
(***************************************************************************)

\* Most rows of a loaded event table.
MaxEvents == 3

SequenceIds == {1, 2}

\* Events of the outcome tracer's inputs.  Times are chosen around the
\* window of an entry at 0 (0..15000) and of an entry at 5000.
EntryPass(team, resultId, ex, ts) ==
    Event("PASS", team, resultId, 1000, 0, ex, 0, 1, ts, Metrics(0, 50))
Shot(resultId, xG, seq, ts) ==
    Event("SHOT", "Belgium", resultId, 4000, 0, 5250, 0, seq, ts, Metrics(xG, 0))

OutcomePool ==
    { EntryPass("Belgium", 1, 2500, 0),
      EntryPass("Belgium", 1, 2500, 5000),
      EntryPass("Belgium", 1, 4000, 0),
      EntryPass("North Macedonia", 0, 2500, 8000),
      Shot(1, 250, 1, 8000),
      Shot(0, 100, 1, 5000),
      Shot(1, 250, 1, 15000),
      Shot(1, 250, 1, 15001),
      Shot(1, 250, 2, 8000),
      Event("SHOT", "Belgium", 0, 4000, 0, 5250, 0, 1, 8000, NoMetrics),
      Event("CLEARANCE", "North Macedonia", 1, 4500, 0, 2000, 0, 1, 5000, NoMetrics),
      Event("INTERCEPTION", "North Macedonia", 1, 3000, 0, 3000, 0, 1, 8000, NoMetrics),
      Event("PASS", "Belgium", 1, 3000, 0, 4000, 0, 1, 8000, Metrics(0, 50)),
      Event("CARRY", "Belgium", 1, 1000, 0, 2500, 0, 1, 5000, NoMetrics),
      Event("INTERCEPTION", "North Macedonia", 1, 3000, 0, 3000, 0, 1, 0, NoMetrics) }

\* MatchDataLoader.load_event_and_player_data: the table gets the records of
\* the file in file order; eventId is the row number.
load_event_and_player_data(data) ==
    /\ pc = "start"
    /\ pc' = "loaded"
    /\ events' = [i \in 1..Len(data) |-> [data[i] EXCEPT !.eventId = i]]
    /\ UNCHANGED <<tie_order, call, ret, window, scanned, results>>

\* The files of 1..n records over a pool of events.
LoadFrom(pool, n) ==
    /\ pc = "start"
    /\ \E k \in 1..n : \E data \in [1..k -> pool] : load_event_and_player_data(data)

\* get_final_third_entries(events_df)
CallGetFinalThirdEntries ==
    /\ pc = "loaded"
    /\ pc' = "done"
    /\ call' = [op |-> "get_final_third_entries"]
    /\ ret' = [kind |-> "entries", rows |-> get_final_third_entries(events)]
    /\ window' = << >>
    /\ scanned' = << >>
    /\ results' = << >>
    /\ UNCHANGED <<events, tie_order>>

\* get_zone_entries_data(get_final_third_entries(events_df), events_df, team_name)
CallGetZoneEntriesData(team_name) ==
    /\ pc = "loaded"
    /\ pc' = "done"
    /\ call' = [op |-> "get_zone_entries_data", team_name |-> team_name]
    /\ ret' = get_zone_entries_data(get_final_third_entries(events), events, team_name, tie_order)
    /\ window' = << >>
    /\ scanned' = << >>
    /\ results' = << >>
    /\ UNCHANGED <<events, tie_order>>

\* analyze_sequence_outcome(team_name, events_df, sequence_id, entry_event_id,
\* entry_timestamp) with the default time_window
CallAnalyzeSequenceOutcome(team_name, sequence_id, entry_event_id, entry_timestamp) ==
    /\ pc = "loaded"
    /\ pc' = "done"
    /\ call' = [op |-> "analyze_sequence_outcome", team_name |-> team_name,
                sequence_id |-> sequence_id, entry_event_id |-> entry_event_id,
                entry_timestamp |-> entry_timestamp, time_window |-> DefaultTimeWindow]
    /\ ret' = analyze_sequence_outcome(team_name, events, sequence_id, entry_event_id,
                                       entry_timestamp, DefaultTimeWindow, tie_order)
    /\ window' = select_next_events(events, sequence_id, entry_timestamp,
                                    DefaultTimeWindow, tie_order)
    /\ scanned' = truncate_at_recycle(window', entry_event_id)
    /\ results' = << >>
    /\ events' = events_df_after_call(events, tie_order)
    /\ UNCHANGED tie_order

Next ==
    \/ LoadFrom(OutcomePool, MaxEvents)
    \/ CallGetFinalThirdEntries
    \/ \E team_name \in Teams : CallGetZoneEntriesData(team_name)
    \/ \E team_name \in Teams, sequence_id \in SequenceIds, i \in 1..Len(events) :
          CallAnalyzeSequenceOutcome(team_name, sequence_id, events[i].eventId,
                                     events[i].timestamp)

Spec == Init /\ [][Next]_vars

\* The same call of analyze_sequence_outcome made a second time, on the table
\* as the first call left it; ret then holds both results.
RerunAnalyzeSequenceOutcome ==
    /\ pc = "done"
    /\ call.op = "analyze_sequence_outcome"
    /\ pc' = "rerun"
    /\ ret' = [kind   |-> "rerun",
               first  |-> ret,
               second |-> analyze_sequence_outcome(call.team_name, events,
                              call.sequence_id, call.entry_event_id,
                              call.entry_timestamp, call.time_window, tie_order)]
    /\ events' = events_df_after_call(events, tie_order)
    /\ UNCHANGED <<tie_order, call, window, scanned, results>>

NextRerun ==
    \/ LoadFrom(OutcomePool, MaxEvents)
    \/ \E team_name \in Teams, sequence_id \in SequenceIds, i \in 1..Len(events) :
          CallAnalyzeSequenceOutcome(team_name, sequence_id, events[i].eventId,
                                     events[i].timestamp)
    \/ RerunAnalyzeSequenceOutcome

SpecRerun == Init /\ [][NextRerun]_vars

(***************************************************************************)
(* Inputs of field tilt and possession: passes that start and end on       *)
(* either side of x = 17.5, and events with and without possession time.   *)
(***************************************************************************)
SharesPool ==
    { MatchEvent("PASS", "Belgium", 1, 2000, 3000, 100, 0, 1000),
      MatchEvent("PASS", "Belgium", 1, 1000, 2500, 100, 0, 2000),
      MatchEvent("PASS", "Belgium", 0, 2000, 1000, 100, 0, 1000),
      MatchEvent("PASS", "North Macedonia", 1, 1750, 1750, 100, 0, 2000),
      MatchEvent("PASS", "North Macedonia", 1, 1749, 1749, 100, 0, 1000),
      MatchEvent("PASS", "North Macedonia", 1, 1000, 2500, 100, 0, 1000),
      MatchEvent("SHOT", "Belgium", 0, 4000, 5250, 200, 0, 1000),
      MatchEvent("CARRY", "North Macedonia", 1, 0, 500, 300, 0, 4000),
      MatchEvent("TOUCH", "Belgium", 1, 0, 0, 301, 5000, 5000) }

\* calculate_field_tilt(events_df, team1_name, team2_name)
CallCalculateFieldTilt(team1_name, team2_name) ==
    /\ pc = "loaded"
    /\ pc' = "done"
    /\ call' = [op |-> "calculate_field_tilt",
                team1_name |-> team1_name, team2_name |-> team2_name]
    /\ ret' = calculate_field_tilt(events, team1_name, team2_name)
    /\ window' = << >>
    /\ scanned' = << >>
    /\ results' = << >>
    /\ UNCHANGED <<events, tie_order>>

\* calculate_possession(events_df, team1_name, team2_name)
CallCalculatePossession(team1_name, team2_name) ==
    /\ pc = "loaded"
    /\ pc' = "done"
    /\ call' = [op |-> "calculate_possession",
                team1_name |-> team1_name, team2_name |-> team2_name]
    /\ ret' = calculate_possession(events, team1_name, team2_name)
    /\ window' = << >>
    /\ scanned' = << >>
    /\ results' = << >>
    /\ UNCHANGED <<events, tie_order>>

NextShares ==
    \/ LoadFrom(SharesPool, MaxEvents)
    \/ \E team1_name \in Teams : \E team2_name \in Teams \ {team1_name} :
          CallCalculateFieldTilt(team1_name, team2_name)
    \/ \E team1_name \in Teams : \E team2_name \in Teams \ {team1_name} :
          CallCalculatePossession(team1_name, team2_name)

SpecShares == Init /\ [][NextShares]_vars

(***************************************************************************)
(* Inputs of the progressive-pass count: passes that end on either side of *)
(* x = 17.5 with a progress at and next to 5 m and 10 m.                   *)
(***************************************************************************)
ProgressivePool ==
    { MatchEvent("PASS", "Belgium", 1, 0, 1000, 100, 0, 1000),
      MatchEvent("PASS", "Belgium", 1, 0, 999, 100, 0, 1000),
      MatchEvent("PASS", "Belgium", 1, 500, 1000, 100, 0, 1000),
      MatchEvent("PASS", "Belgium", 1, 1500, 2000, 100, 0, 1000),
      MatchEvent("PASS", "Belgium", 1, 1500, 1999, 100, 0, 1000),
      MatchEvent("PASS", "Belgium", 1, 1000, 2500, 100, 0, 1000),
      MatchEvent("PASS", "Belgium", 0, 0, 2000, 100, 0, 1000),
      MatchEvent("PASS", "North Macedonia", 1, 0, 1200, 100, 0, 1000),
      MatchEvent("PASS", "North Macedonia", 1, 1250, 1750, 100, 0, 1000),
      MatchEvent("SHOT", "Belgium", 1, 0, 2000, 200, 0, 1000) }

\* calculate_progressive_passes(events_df, team1_name, team2_name)
CallCalculateProgressivePasses(team1_name, team2_name) ==
    /\ pc = "loaded"
    /\ pc' = "done"
    /\ call' = [op |-> "calculate_progressive_passes",
                team1_name |-> team1_name, team2_name |-> team2_name]
    /\ ret' = calculate_progressive_passes(events, team1_name, team2_name)
    /\ window' = << >>
    /\ scanned' = << >>
    /\ results' = << >>
    /\ UNCHANGED <<events, tie_order>>

NextProgressive ==
    \/ LoadFrom(ProgressivePool, MaxEvents)
    \/ \E team1_name \in Teams : \E team2_name \in Teams \ {team1_name} :
          CallCalculateProgressivePasses(team1_name, team2_name)

SpecProgressive == Init /\ [][NextProgressive]_vars

(***************************************************************************)
(* Inputs of PPDA: passes and clearances that start at and next to         *)
(* x = 10.5, events of and outside the defensive sub-types that start at   *)
(* and next to x = -10.5.                                                  *)
(***************************************************************************)
PpdaPool ==
    { MatchEvent("PASS", "Belgium", 1, 1049, 2000, 100, 0, 1000),
      MatchEvent("PASS", "Belgium", 1, 1050, 2000, 100, 0, 1000),
      MatchEvent("PASS", "Belgium", 0, 0, 2000, 100, 0, 1000),
      MatchEvent("PASS", "North Macedonia", 1, 0, 2000, 100, 0, 1000),
      MatchEvent("CLEARANCE", "North Macedonia", 1, 1049, 2000, 600, 0, 1000),
      MatchEvent("CLEARANCE", "North Macedonia", 1, 1050, 2000, 600, 0, 1000),
      MatchEvent("INTERCEPTION", "Belgium", 1, -1050, -1050, 500, 0, 1000),
      MatchEvent("INTERCEPTION", "Belgium", 1, -1051, -1051, 500, 0, 1000),
      MatchEvent("DUEL", "Belgium", 0, 0, 0, 402, 0, 1000),
      MatchEvent("DUEL", "North Macedonia", 1, 0, 0, 400, 0, 1000),
      MatchEvent("FOUL", "North Macedonia", 1, 3000, 3000, 700, 0, 1000) }

\* calculate_ppda(events_df, team1_name, team2_name)
CallCalculatePpda(team1_name, team2_name) ==
    /\ pc = "loaded"
    /\ pc' = "done"
    /\ call' = [op |-> "calculate_ppda",
                team1_name |-> team1_name, team2_name |-> team2_name]
    /\ ret' = calculate_ppda(events, team1_name, team2_name)
    /\ window' = << >>
    /\ scanned' = << >>
    /\ results' = << >>
    /\ UNCHANGED <<events, tie_order>>

NextPpda ==
    \/ LoadFrom(PpdaPool, MaxEvents)
    \/ \E team1_name \in Teams : \E team2_name \in Teams \ {team1_name} :
          CallCalculatePpda(team1_name, team2_name)

SpecPpda == Init /\ [][NextPpda]_vars

(***************************************************************************)
(* Inputs of the entry detector: every type, team and result on one entry  *)
(* geometry, and a successful pass of one team on geometries at and next   *)
(* to x = 17.5 and y = -12, 12.                                            *)
(***************************************************************************)
EntryEvent(type, team, resultId, sx, ex, ey, metrics) ==
    Event(type, team, resultId, sx, 0, ex, ey, 1, 0, metrics)

EntryPool ==
    { EntryEvent("PASS", "Belgium", 1, 1000, 2500, 0, Metrics(0, 50)),
      EntryEvent("PASS", "Belgium", 1, 1000, 2500, 0, NoMetrics),
      EntryEvent("PASS", "Belgium", 0, 1000, 2500, 0, Metrics(0, 50)),
      EntryEvent("PASS", "North Macedonia", 1, 1000, 2500, 0, Metrics(0, 50)),
      EntryEvent("DRIBBLE", "Belgium", 1, 1000, 2500, 0, NoMetrics),
      EntryEvent("SHOT", "Belgium", 1, 1000, 2500, 0, Metrics(250, 0)),
      EntryEvent("SHOT", "Belgium", 0, 1000, 2500, 0, NoMetrics),
      EntryEvent("PASS", "Belgium", 1, 1000, 1749, 0, Metrics(0, 50)),
      EntryEvent("PASS", "Belgium", 1, 1000, 1750, 0, Metrics(0, 50)),
      EntryEvent("PASS", "Belgium", 1, 1750, 2500, 0, Metrics(0, 50)),
      EntryEvent("PASS", "Belgium", 1, 1000, 2500, -1201, Metrics(0, 50)),
      EntryEvent("PASS", "Belgium", 1, 1000, 1750, -1201, Metrics(0, 50)),
      EntryEvent("PASS", "Belgium", 1, 1000, 2500, -1200, Metrics(0, 50)),
      EntryEvent("PASS", "Belgium", 1, 1000, 2500, 1200, Metrics(0, 50)),
      EntryEvent("PASS", "Belgium", 1, 1000, 2500, 1201, Metrics(0, 50)) }

NextEntries ==
    \/ LoadFrom(EntryPool, MaxEvents)
    \/ CallGetFinalThirdEntries
    \/ \E team_name \in Teams : CallGetZoneEntriesData(team_name)

SpecEntries == Init /\ [][NextEntries]_vars

(***************************************************************************)
(* Inputs of calculate_dominance_metrics: passes of both teams with and    *)
(* without a duration, into and short of the final third, a defensive      *)
(* action of each team and a shot.                                         *)
(***************************************************************************)
MaxMatchEvents == 4

DominancePool ==
    { GameEvent("PASS", "Belgium", 1, 0, 0, 2500, 100, 0, 0, NoMetrics, "None"),
      GameEvent("PASS", "Belgium", 1, 0, 0, 2500, 100, 0, 1000, NoMetrics, "None"),
      GameEvent("PASS", "North Macedonia", 1, 0, 0, 1000, 100, 0, 0, NoMetrics, "None"),
      GameEvent("PASS", "North Macedonia", 1, 0, 0, 1000, 100, 0, 2000, NoMetrics, "None"),
      GameEvent("INTERCEPTION", "Belgium", 1, 0, 0, 0, 500, 0, 0, NoMetrics, "None"),
      GameEvent("DUEL", "North Macedonia", 1, 0, 0, 0, 400, 0, 0, NoMetrics, "None"),
      GameEvent("SHOT", "Belgium", 1, 4000, 0, 5250, 1100, 0, 0, Metrics(250, 0), "ON_TARGET") }

\* calculate_dominance_metrics(events_df, team1_name, team2_name)
CallCalculateDominanceMetrics(team1_name, team2_name) ==
    /\ pc = "loaded"
    /\ pc' = "done"
    /\ call' = [op |-> "calculate_dominance_metrics",
                team1_name |-> team1_name, team2_name |-> team2_name]
    /\ ret' = calculate_dominance_metrics(events, team1_name, team2_name)
    /\ window' = << >>
    /\ scanned' = << >>
    /\ results' = << >>
    /\ UNCHANGED <<events, tie_order>>

NextDominance ==
    \/ LoadFrom(DominancePool, MaxMatchEvents)
    \/ \E team1_name \in Teams : \E team2_name \in Teams \ {team1_name} :
          CallCalculateDominanceMetrics(team1_name, team2_name)

SpecDominance == Init /\ [][NextDominance]_vars

(***************************************************************************)
(* Inputs of the block analysis.  possession_frame_ids is None or a list   *)
(* (the frame ids 1..n in order); the tracking table has rows of the ball  *)
(* and of the players for at most two of these frames, each frame laid out *)
(* in one of a few ways (whole metres).  Shirt 23 is the goalkeeper.       *)
(***************************************************************************)
MaxFrames == 12

FrameLayouts ==
    {"no_ball", "two_defenders", "keeper_and_two", "three_and_keeper",
     "three_outfield", "three_in_line", "four_and_keeper"}

Players(frame_id, team_name, places) ==
    [k \in 1..Len(places) |->
        TrackingRow(frame_id, team_name, places[k][1], places[k][2], places[k][3])]

TrackingFrame(frame_id, layout) ==
    LET ball(x, y) == <<TrackingRow(frame_id, "ball", 0, x, y)>>
        attacker == <<TrackingRow(frame_id, "Belgium", 9, 1000, 0)>>
        defenders(places) == Players(frame_id, "North Macedonia", places)
    IN  CASE layout = "no_ball" ->
                 attacker \o defenders(<< <<2, 3000, 1000>>, <<3, 3000, -1000>>, <<4, 2000, 0>> >>)
          [] layout = "two_defenders" ->
                 ball(2000, 0) \o attacker
                     \o defenders(<< <<2, 3000, 1000>>, <<3, 3000, -1000>> >>)
          [] layout = "keeper_and_two" ->
                 ball(2000, 2000) \o attacker
                     \o defenders(<< <<23, 5000, 0>>, <<2, 3000, 1000>>, <<3, 3000, -1000>> >>)
          [] layout = "three_and_keeper" ->
                 ball(2000, -2000) \o attacker
                     \o defenders(<< <<23, 5000, 0>>, <<2, 3000, 1000>>, <<3, 3000, -1000>>,
                                     <<4, 2000, 0>> >>)
          [] layout = "three_outfield" ->
                 ball(0, 0) \o attacker
                     \o defenders(<< <<2, 2000, 1000>>, <<3, 2000, -1000>>, <<4, 1000, -1000>> >>)
          [] layout = "three_in_line" ->
                 ball(-3000, 0) \o attacker
                     \o defenders(<< <<2, 3000, 1000>>, <<3, 3000, 0>>, <<4, 3000, -1000>> >>)
          [] layout = "four_and_keeper" ->
                 ball(2000, 0) \o attacker
                     \o defenders(<< <<23, 5000, 0>>, <<2, 4000, 2000>>, <<3, 4000, -2000>>,
                                     <<4, 2000, 0>>, <<5, 3000, 0>> >>)

\* The possession_frame_ids argument when it is a list: the frame ids 1..n.
FrameIds(n) == [kind |-> "list", value |-> [i \in 1..n |-> i]]

\* analyze_block_by_ball_position(tracking_df, defending_team_name, possession_frame_ids)
CallAnalyzeBlockByBallPosition(tracking_df, defending_team_name, possession_frame_ids) ==
    /\ pc = "start"
    /\ pc' = "done"
    /\ call' = [op |-> "analyze_block_by_ball_position",
                tracking_df |-> tracking_df,
                defending_team_name |-> defending_team_name,
                possession_frame_ids |-> possession_frame_ids]
    /\ ret' = analyze_block_by_ball_position(tracking_df, defending_team_name,
                                             possession_frame_ids)
    /\ results' = IF possession_frame_ids = None \/ Len(tracking_df) = 0
                  THEN << >>
                  ELSE block_results(tracking_df, defending_team_name,
                                     possession_frame_ids.value, SampleStep)
    /\ window' = << >>
    /\ scanned' = << >>
    /\ UNCHANGED <<events, tie_order>>

\* get_ball_zone(ball_x, ball_y, zones)
CallGetBallZone(ball_x, ball_y) ==
    /\ pc = "start"
    /\ pc' = "done"
    /\ call' = [op |-> "get_ball_zone", x |-> ball_x, y |-> ball_y]
    /\ ret' = [kind |-> "zone", name |-> get_ball_zone(ball_x, ball_y, get_zones)]
    /\ window' = << >>
    /\ scanned' = << >>
    /\ results' = << >>
    /\ UNCHANGED <<events, tie_order>>

\* calculate_convex_hull_area(points)
CallCalculateConvexHullArea(points) ==
    /\ pc = "start"
    /\ pc' = "done"
    /\ call' = [op |-> "calculate_convex_hull_area", points |-> points]
    /\ ret' = calculate_convex_hull_area(points)
    /\ window' = << >>
    /\ scanned' = << >>
    /\ results' = << >>
    /\ UNCHANGED <<events, tie_order>>

HullPoints == {<<0, 0>>, <<1000, 0>>, <<2000, 0>>, <<0, 1000>>, <<1000, 1000>>}

NextBlock ==
    \/ /\ pc = "start"
       /\ \E defending_team_name \in Teams : \E n \in 0..MaxFrames :
          \E a \in 1..n : \E b \in a..n : \E la \in FrameLayouts : \E lb \in FrameLayouts :
             CallAnalyzeBlockByBallPosition(
                 IF a = b THEN TrackingFrame(a, la)
                          ELSE TrackingFrame(a, la) \o TrackingFrame(b, lb),
                 defending_team_name, FrameIds(n))
    \/ /\ pc = "start"
       /\ \E defending_team_name \in Teams : \E n \in 0..MaxFrames :
             CallAnalyzeBlockByBallPosition(<< >>, defending_team_name, FrameIds(n))
    \/ /\ pc = "start"
       /\ \E defending_team_name \in Teams : \E la \in FrameLayouts :
             CallAnalyzeBlockByBallPosition(TrackingFrame(1, la), defending_team_name, None)
    \/ /\ pc = "start"
       /\ \E ball_x \in ZoneXs : \E ball_y \in ZoneYs : CallGetBallZone(ball_x, ball_y)
    \/ /\ pc = "start"
       /\ \E k \in 0..4 : \E points \in [1..k -> HullPoints] :
             CallCalculateConvexHullArea(points)

SpecBlock == Init /\ [][NextBlock]_vars

(***************************************************************************)
(* One script run that makes any number of analysis calls on the table it  *)
(* loaded, one after the other.                                            *)
(***************************************************************************)
CallsPool ==
    { GameEvent("PASS", "Belgium", 1, 1000, 500, 2500, 100, 0, 1000, Metrics(0, 50), "None"),
      GameEvent("PASS", "Belgium", 1, 1000, 500, 4000, 100, 5000, 6000, NoMetrics, "None"),
      GameEvent("PASS", "North Macedonia", 1, 1000, -500, 2500, 100, 2000, 3000, NoMetrics, "None"),
      GameEvent("SHOT", "Belgium", 1, 4000, 0, 5250, 1100, 8000, 8000, Metrics(250, 0), "ON_TARGET"),
      GameEvent("INTERCEPTION", "North Macedonia", 1, 3000, 0, 3000, 500, 8000, 8000, NoMetrics, "None"),
      GameEvent("DUEL", "Belgium", 1, 0, 0, 0, 400, 9000, 9000, NoMetrics, "None") }

\* get_territorial_heatmap_data(events_df, team1_name, team2_name)
CallGetTerritorialHeatmapData(team1_name, team2_name) ==
    /\ pc = "loaded"
    /\ pc' = "done"
    /\ call' = [op |-> "get_territorial_heatmap_data",
                team1_name |-> team1_name, team2_name |-> team2_name]
    /\ ret' = get_territorial_heatmap_data(events, team1_name, team2_name)
    /\ window' = << >>
    /\ scanned' = << >>
    /\ results' = << >>
    /\ events' = events_df_after_heatmap(events, team2_name)
    /\ UNCHANGED tie_order

\* The script goes on to its next analysis with the table as it is now.
NextAnalysis ==
    /\ pc = "done"
    /\ pc' = "loaded"
    /\ call' = NoCall
    /\ ret' = NoRet
    /\ window' = << >>
    /\ scanned' = << >>
    /\ results' = << >>
    /\ UNCHANGED <<events, tie_order>>

NextCalls ==
    \/ LoadFrom(CallsPool, MaxMatchEvents)
    \/ CallGetFinalThirdEntries
    \/ \E team_name \in Teams : CallGetZoneEntriesData(team_name)
    \/ \E team_name \in Teams, i \in 1..Len(events) :
          CallAnalyzeSequenceOutcome(team_name, events[i].sequenceId, events[i].eventId,
                                     events[i].timestamp)
    \/ \E team1_name \in Teams : \E team2_name \in Teams \ {team1_name} :
          CallGetTerritorialHeatmapData(team1_name, team2_name)
    \/ \E team1_name \in Teams : \E team2_name \in Teams \ {team1_name} :
          CallCalculateDominanceMetrics(team1_name, team2_name)
    \/ NextAnalysis

SpecCalls == Init /\ [][NextCalls]_vars

(***************************************************************************)
(* Claims about the zone lookup (SpecZone)                                 *)
(***************************************************************************)
ZoneCalled == call.op = "get_zone_for_position"

\* The six zone names of the table, in declaration order.
DeclaredOrder ==
    << "left_progression", "center_progression", "right_progression",
       "left_final_third", "center_final_third", "right_final_third" >>

ZoneLabels == {DeclaredOrder[i] : i \in 1..Len(DeclaredOrder)} \cup {"build_up_zone"}

\* The rectangle of the i-th zone contains (x, y), bounds inclusive.
InRectangle(i, x, y) ==
    /\ ZONES[i].x[1] <= x /\ x <= ZONES[i].x[2]
    /\ ZONES[i].y[1] <= y /\ y <= ZONES[i].y[2]

\* (x, y) lies on the border of the i-th zone's rectangle.
OnBorder(i, x, y) ==
    /\ InRectangle(i, x, y)
    /\ \/ x \in {ZONES[i].x[1], ZONES[i].x[2]}
       \/ y \in {ZONES[i].y[1], ZONES[i].y[2]}

\* C1: get_zone_for_position is total: for every position, on or off the
\* pitch, the call returns one label, and that label is one of the six zone
\* names of the table or 'build_up_zone'.
C1_ZoneLookupTotal ==
    ZoneCalled =>
        /\ ret.kind = "zone"
        /\ ret.value \in ZoneLabels
        /\ Cardinality({l \in ZoneLabels : l = ret.value}) = 1

\* C1 witness: a position off the pitch got the default label.
C1_Witness ==
    /\ ZoneCalled
    /\ call.x = 5251 /\ call.y = -3500
    /\ ret.value = "build_up_zone"

\* C2: the label returned is the name of the first zone in declaration order
\* whose rectangle contains the position, bounds inclusive on all four sides,
\* and 'build_up_zone' when no rectangle contains it; on an edge shared by two
\* zones the earlier-declared one is returned.
C2_FirstMatchInDeclarationOrder ==
    /\ \A i \in 1..Len(ZONES) : ZONES[i].name = DeclaredOrder[i]
    /\ ZoneCalled =>
        /\ ret.kind = "zone"
        /\ (ret.value = "build_up_zone") <=>
               (\A i \in 1..Len(ZONES) : ~InRectangle(i, call.x, call.y))
        /\ \A i \in 1..Len(ZONES) :
               (/\ InRectangle(i, call.x, call.y)
                /\ \A j \in 1..(i - 1) : ~InRectangle(j, call.x, call.y))
               => ret.value = DeclaredOrder[i]

\* C2 witness: the corner shared by four zones resolves to the first declared.
C2_Witness ==
    /\ ZoneCalled
    /\ call.x = 1750 /\ call.y = 1200
    /\ Cardinality({i \in 1..Len(ZONES) : InRectangle(i, call.x, call.y)}) = 4
    /\ ret.value = "left_progression"

\* The zones of one x-band, from the right touchline to the left one.
Bands == { <<3, 2, 1>>, <<6, 5, 4>> }

\* C3: the zone table is a consistent partition: in each x-band the three
\* y-bands have the same x-range, run from y = -34 to y = 34, each adjacent
\* pair shares exactly one edge value, every position of the band is in some
\* zone of it, and a position in more than one rectangle is on the border of
\* each of them, never in the interior of a zone.
C3_ZoneTablePartition ==
    /\ \A b \in Bands :
          /\ ZONES[b[1]].x = ZONES[b[2]].x /\ ZONES[b[2]].x = ZONES[b[3]].x
          /\ ZONES[b[1]].y[1] = -3400 /\ ZONES[b[3]].y[2] = 3400
          /\ ZONES[b[1]].y[2] = ZONES[b[2]].y[1]
          /\ ZONES[b[2]].y[2] = ZONES[b[3]].y[1]
          /\ \A k \in 1..3 : ZONES[b[k]].y[1] < ZONES[b[k]].y[2]
    /\ ZoneCalled =>
        /\ \A b \in Bands :
              (/\ ZONES[b[1]].x[1] <= call.x /\ call.x <= ZONES[b[1]].x[2]
               /\ -3400 <= call.y /\ call.y <= 3400)
              => \E k \in 1..3 : InRectangle(b[k], call.x, call.y)
        /\ \A i, j \in 1..Len(ZONES) :
              (i # j /\ InRectangle(i, call.x, call.y) /\ InRectangle(j, call.x, call.y))
              => (OnBorder(i, call.x, call.y) /\ OnBorder(j, call.x, call.y))

\* C3 witness: a position on the edge shared by two y-bands of the final third.
C3_Witness ==
    /\ ZoneCalled
    /\ call.x = 3000 /\ call.y = -1200
    /\ {i \in 1..Len(ZONES) : InRectangle(i, call.x, call.y)} = {5, 6}
    /\ ret.value = "center_final_third"

(***************************************************************************)
(* Claims about is_box_entry (SpecBox)                                     *)
(***************************************************************************)
BoxCalled == call.op = "is_box_entry"

\* The penalty-box rectangle of the claim: 36 <= x <= 52.5, -20.16 <= y <= 20.16.
InsideBox(x, y) == x >= 3600 /\ x <= 5250 /\ y >= -2016 /\ y <= 2016

\* C9: is_box_entry is true iff the start position is not inside the box
\* rectangle (bounds inclusive) and the end position is inside it; an event
\* that starts inside the box is never a box entry.
C9_BoxEntryIffOutsideToInside ==
    BoxCalled =>
        /\ ret.kind = "bool"
        /\ ret.value <=>
              (/\ ~InsideBox(call.event.startPosXM, call.event.startPosYM)
               /\ InsideBox(call.event.endPosXM, call.event.endPosYM))
        /\ InsideBox(call.event.startPosXM, call.event.startPosYM) => ~ret.value
        /\ (/\ call.event.startPosXM = 3000 /\ call.event.startPosYM = 0
            /\ call.event.endPosXM = 4000 /\ call.event.endPosYM = 0) => ret.value
        /\ (/\ call.event.startPosXM = 3800 /\ call.event.startPosYM = 0
            /\ call.event.endPosXM = 4500 /\ call.event.endPosYM = 2500) => ~ret.value

\* C9 witness: the pass from (30, 0) to (40, 0) was classified a box entry.
C9_Witness ==
    /\ BoxCalled
    /\ call.event.startPosXM = 3000 /\ call.event.startPosYM = 0
    /\ call.event.endPosXM = 4000 /\ call.event.endPosYM = 0
    /\ ret.value = TRUE

(***************************************************************************)
(* Claims about analyze_sequence_outcome (Spec)                            *)
(***************************************************************************)
OutcomeCalled == call.op = "analyze_sequence_outcome"
OutcomeReturned == OutcomeCalled /\ ret.kind = "outcome"

\* The event is of the call's sequence and inside [entry, entry + 15000].
InCallWindow(e) ==
    /\ e.sequenceId = call.sequence_id
    /\ call.entry_timestamp <= e.timestamp
    /\ e.timestamp <= call.entry_timestamp + 15000

\* The outcome of the same call on another event table.
OutcomeOn(table) ==
    analyze_sequence_outcome(call.team_name, table, call.sequence_id,
        call.entry_event_id, call.entry_timestamp, call.time_window, tie_order)

\* C6: the tracer considers exactly the events of the entry's sequence whose
\* timestamp t has entry_timestamp <= t <= entry_timestamp + 15000 (the default
\* window), in ascending timestamp order, and the outcome is the one the call
\* gives on the table with every other event removed.
C6_WindowSelection ==
    OutcomeCalled =>
        /\ call.time_window = 15000
        /\ {window[i].eventId : i \in 1..Len(window)} =
               {events[k].eventId : k \in {n \in 1..Len(events) : InCallWindow(events[n])}}
        /\ \A i, j \in 1..Len(window) :
               /\ window[i] = events[window[i].eventId]
               /\ i < j => (window[i].eventId # window[j].eventId
                            /\ window[i].timestamp <= window[j].timestamp)
        /\ ret = OutcomeOn(SelectSeq(events, InCallWindow))

\* C6 witness: the window keeps a shot at exactly entry + 15000 and leaves out
\* a shot of the same sequence one millisecond later.
C6_Witness ==
    /\ OutcomeReturned
    /\ call.entry_timestamp = 0
    /\ Len(events) = 3 /\ Len(window) = 2
    /\ window[1].eventId = call.entry_event_id
    /\ window[2].baseTypeName = "SHOT" /\ window[2].timestamp = 15000
    /\ \E k \in 1..Len(events) :
          /\ events[k].sequenceId = call.sequence_id
          /\ events[k].baseTypeName = "SHOT" /\ events[k].timestamp = 15001
    /\ ret.shot_count = 1

\* The other entry events of the window: not the triggering event, start
\* x < 17.5 and end x >= 17.5.
OtherEntries ==
    {i \in 1..Len(window) :
        /\ window[i].eventId # call.entry_event_id
        /\ window[i].startPosXM < 1750
        /\ window[i].endPosXM >= 1750}

EarliestOtherEntry ==
    CHOOSE t \in {window[i].timestamp : i \in OtherEntries} :
        \A i \in OtherEntries : t <= window[i].timestamp

StrictlyBeforeRecycle(e) == e.timestamp < EarliestOtherEntry

InWindowBeforeRecycle(e) == InCallWindow(e) /\ StrictlyBeforeRecycle(e)

\* C7: if the window holds an entry event other than the triggering one, the
\* outcome has recycled = true, the loop runs over exactly the window's events
\* with a timestamp strictly before the earliest such entry, and shot, box
\* entry and turnover fields are those of the table cut there; otherwise
\* recycled = false and the loop runs over the whole window.
C7_RecycleTruncation ==
    OutcomeCalled =>
        IF OtherEntries # {}
        THEN /\ scanned = SelectSeq(window, StrictlyBeforeRecycle)
             /\ OutcomeReturned =>
                   /\ ret.recycled
                   /\ [ret EXCEPT !.recycled = FALSE] =
                          OutcomeOn(SelectSeq(events, InWindowBeforeRecycle))
        ELSE /\ scanned = window
             /\ OutcomeReturned => ~ret.recycled

\* C7 witness: [entry at 0, second entry at 5000, shot at 8000] traced from the
\* first entry: recycled, and the shot is left out.
C7_Witness ==
    /\ OutcomeReturned
    /\ Len(events) = 3
    /\ call.entry_event_id = 1 /\ call.entry_timestamp = 0
    /\ events[1].baseTypeName = "PASS" /\ events[1].endPosXM >= 1750
    /\ events[2].baseTypeName = "PASS" /\ events[2].timestamp = 5000
    /\ events[2].startPosXM < 1750 /\ events[2].endPosXM >= 1750
    /\ events[3].baseTypeName = "SHOT" /\ events[3].timestamp = 8000
    /\ \A k \in 1..3 : events[k].sequenceId = call.sequence_id
    /\ ret.recycled /\ ~ret.shot /\ ret.shot_count = 0

\* An INTERCEPTION or CLEARANCE by a team other than the analysed one.
OpposingTurnover(e) ==
    /\ e.baseTypeName \in {"INTERCEPTION", "CLEARANCE"}
    /\ e.teamName # call.team_name

\* The number of rows of the loop's list positioned before the first opposing
\* INTERCEPTION or CLEARANCE (all of them if there is none).
RowsBeforeTurnover ==
    LET stops == {i \in 1..Len(scanned) : OpposingTurnover(scanned[i])}
    IN  IF stops = {}
        THEN Len(scanned)
        ELSE (CHOOSE i \in stops : \A k \in stops : i <= k) - 1

ShotsBeforeTurnover ==
    {i \in 1..RowsBeforeTurnover : scanned[i].baseTypeName = "SHOT"}

BoxEntriesBeforeTurnover ==
    {i \in 1..RowsBeforeTurnover :
        /\ ~InsideBox(scanned[i].startPosXM, scanned[i].startPosYM)
        /\ InsideBox(scanned[i].endPosXM, scanned[i].endPosYM)}

RECURSIVE XgOfRows(_)
XgOfRows(rows) ==
    IF rows = {} THEN 0
    ELSE LET i == CHOOSE k \in rows : TRUE
         IN  scanned[i].metrics.xG + XgOfRows(rows \ {i})

\* C8: turnover is true iff the loop's list holds an INTERCEPTION or CLEARANCE
\* by a team other than the analysed one; the shots and box entries reported
\* are exactly those of the events positioned before the first such event, and
\* no event after it contributes.
C8_TurnoverShortCircuit ==
    OutcomeReturned =>
        /\ ret.turnover <=> (\E i \in 1..Len(scanned) : OpposingTurnover(scanned[i]))
        /\ ret.shot_count = Cardinality(ShotsBeforeTurnover)
        /\ ret.shot <=> (ShotsBeforeTurnover # {})
        /\ ret.box_entry_count = Cardinality(BoxEntriesBeforeTurnover)
        /\ ret.box_entry <=> (BoxEntriesBeforeTurnover # {})
        /\ ret.total_xg = XgOfRows(ShotsBeforeTurnover)

\* C8 witness: [entry at 0, opposing CLEARANCE at 5000, shot at 8000]: turnover
\* is true and the later shot is not counted.
C8_Witness ==
    /\ OutcomeReturned
    /\ Len(scanned) = 3
    /\ scanned[1].eventId = call.entry_event_id
    /\ scanned[2].baseTypeName = "CLEARANCE" /\ scanned[2].teamName # call.team_name
    /\ scanned[3].baseTypeName = "SHOT" /\ scanned[3].teamName = call.team_name
    /\ ret.turnover /\ ~ret.shot

\* C10: a shot does not stop the loop: shot_count is the number of SHOT events
\* the loop reached, total_xg the sum of their xG, goal_count the number of
\* them with a successful result; and in every returned outcome
\* shot = (shot_count >= 1), goal = (goal_count >= 1), goal_count <= shot_count,
\* box_entry = (box_entry_count >= 1), and shot_count = 0 implies total_xg = 0
\* and goal = false.
C10_OutcomeAggregation ==
    OutcomeReturned =>
        /\ ret.shot_count = Cardinality(ShotsBeforeTurnover)
        /\ ret.total_xg = XgOfRows(ShotsBeforeTurnover)
        /\ ret.goal_count =
               Cardinality({i \in ShotsBeforeTurnover : scanned[i].resultId = 1})
        /\ ret.shot <=> (ret.shot_count >= 1)
        /\ ret.goal <=> (ret.goal_count >= 1)
        /\ ret.goal_count <= ret.shot_count
        /\ ret.box_entry <=> (ret.box_entry_count >= 1)
        /\ ret.shot_count = 0 => (ret.total_xg = 0 /\ ~ret.goal)

\* C10 witness: two shots in one window, one of them a goal, both counted.
C10_Witness ==
    /\ OutcomeReturned
    /\ ret.shot_count = 2 /\ ret.goal_count = 1
    /\ ret.total_xg = 350
    /\ ret.shot /\ ret.goal

\* The total xG of rows of the loop's list with an absent xG taken as 0.
RECURSIVE XgOrZeroOfRows(_)
XgOrZeroOfRows(rows) ==
    IF rows = {} THEN 0
    ELSE LET i == CHOOSE k \in rows : TRUE
         IN  (IF scanned[i].metrics.present THEN scanned[i].metrics.xG ELSE 0)
                 + XgOrZeroOfRows(rows \ {i})

\* C11: when the loop reaches a SHOT whose metrics are absent, the tracer still
\* returns an outcome; that shot is counted in shot_count and adds 0 to
\* total_xg.
C11_AbsentShotMetricsCountAsZero ==
    (OutcomeCalled /\ \E i \in ShotsBeforeTurnover : ~scanned[i].metrics.present) =>
        /\ ret.kind = "outcome"
        /\ ret.shot_count = Cardinality(ShotsBeforeTurnover)
        /\ ret.total_xg = XgOrZeroOfRows(ShotsBeforeTurnover)

\* The outcome the function starts from: nothing found.
EmptyOutcome ==
    [ kind            |-> "outcome",
      box_entry       |-> FALSE,
      box_entry_count |-> 0,
      shot            |-> FALSE,
      shot_count      |-> 0,
      goal            |-> FALSE,
      goal_count      |-> 0,
      total_xg        |-> 0,
      turnover        |-> FALSE,
      recycled        |-> FALSE ]

\* C12: when no event of the table is of the call's sequence with a timestamp
\* in [entry_timestamp, entry_timestamp + 15000], the selected window is empty
\* and the call returns the outcome with every flag false and every count and
\* total_xg equal to 0.
C12_EmptyWindowOutcome ==
    (OutcomeCalled /\ ~\E k \in 1..Len(events) : InCallWindow(events[k])) =>
        /\ window = << >>
        /\ ret = EmptyOutcome

\* C12 witness: the call's sequence has a shot, but before the entry
\* timestamp, so the window is empty and the outcome is all false and zero.
C12_Witness ==
    /\ OutcomeCalled
    /\ window = << >>
    /\ \E k \in 1..Len(events) :
          /\ events[k].sequenceId = call.sequence_id
          /\ events[k].baseTypeName = "SHOT"
          /\ events[k].timestamp < call.entry_timestamp
    /\ ret = EmptyOutcome

(***************************************************************************)
(* Claims about running the tracer twice (SpecRerun)                       *)
(***************************************************************************)

StatsCalled == call.op = "calculate_entry_zone_stats"

\* The rows of the input frame of a zone.
EntriesOf(zone) ==
    {i \in 1..Len(call.entries_df) : call.entries_df[i].entry_zone = zone}

\* The sum of an integer column over rows of the input frame.
RECURSIVE SumOfValues(_, _)
SumOfValues(value, rows) ==
    IF rows = {} THEN 0
    ELSE LET i == CHOOSE k \in rows : TRUE
         IN  value[i] + SumOfValues(value, rows \ {i})

SumOver(rows, column) ==
    SumOfValues([i \in 1..Len(call.entries_df) |-> call.entries_df[i][column]], rows)

\* The double (part / total) * 100 and the double 30.
Percent(part, total) == float_mul_int(float_div(part, total), 100)
Float30 ==
    [nan |-> FALSE, exponent |-> 4,
     mantissa |-> [i \in 1..MantissaBits |-> IF i <= 4 THEN 1 ELSE 0]]

\* C14: every row of the summary has, over the entries of its zone:
\* total_entries = their number, entries_with_shot = the number with shot true,
\* total_shots = the sum of shot_count, shot_rate, box_entry_rate, turnover_rate
\* and recycle_rate = (entries with the flag / total_entries) * 100,
\* xg_per_entry = total_xg / total_entries; and a zone with 10 entries of which
\* 3 have a shot has shot_rate exactly 30.
C14_ZoneStatsFormulas ==
    StatsCalled =>
        /\ ret.kind = "stats"
        /\ \A k \in 1..Len(ret.rows) :
              LET row == ret.rows[k]
                  zone == EntriesOf(row.entry_zone)
                  n == Cardinality(zone)
                  with_shot == Cardinality({i \in zone : call.entries_df[i].shot})
                  with_box == Cardinality({i \in zone : call.entries_df[i].box_entry})
                  with_turnover == Cardinality({i \in zone : call.entries_df[i].turnover})
                  with_recycle == Cardinality({i \in zone : call.entries_df[i].recycled})
              IN  /\ row.total_entries = n
                  /\ row.entries_with_shot = with_shot
                  /\ row.total_shots = SumOver(zone, "shot_count")
                  /\ row.total_xg = SumOver(zone, "total_xg")
                  /\ row.shot_rate = Percent(with_shot, n)
                  /\ row.box_entry_rate = Percent(with_box, n)
                  /\ row.turnover_rate = Percent(with_turnover, n)
                  /\ row.recycle_rate = Percent(with_recycle, n)
                  /\ row.xg_per_entry = float_div(row.total_xg, 1000 * n)
                  /\ (n = 10 /\ with_shot = 3) => row.shot_rate = Float30

\* C14 witness: a zone with 10 entries, 3 of them with a shot, has shot_rate 30.
C14_Witness ==
    /\ StatsCalled
    /\ \E k \in 1..Len(ret.rows) :
          /\ ret.rows[k].total_entries = 10
          /\ ret.rows[k].entries_with_shot = 3
          /\ Cardinality({i \in EntriesOf(ret.rows[k].entry_zone) :
                              call.entries_df[i].shot}) = 3
          /\ ret.rows[k].shot_rate = Float30

\* C15: the call returns a summary (no division error); in it a zone whose
\* total_shots is 0 has xg_per_shot not-a-number, and a zone with
\* total_shots > 0 has xg_per_shot = total_xg / total_shots.
C15_XgPerShotNaN ==
    StatsCalled =>
        /\ ret.kind = "stats"
        /\ \A k \in 1..Len(ret.rows) :
              LET row == ret.rows[k]
                  zone == EntriesOf(row.entry_zone)
                  shots == SumOver(zone, "shot_count")
              IN  /\ row.total_shots = shots
                  /\ shots = 0 => row.xg_per_shot.nan
                  /\ shots > 0 =>
                        /\ ~row.xg_per_shot.nan
                        /\ row.xg_per_shot =
                               float_div(SumOver(zone, "total_xg"), 1000 * shots)

\* C15 witness: a summary with a zone without shots (xg_per_shot NaN) next to
\* a zone with shots.
C15_Witness ==
    /\ StatsCalled
    /\ ret.kind = "stats"
    /\ \E j, k \in 1..Len(ret.rows) :
          /\ ret.rows[j].total_shots = 0 /\ ret.rows[j].xg_per_shot.nan
          /\ ret.rows[k].total_shots = 3 /\ ~ret.rows[k].xg_per_shot.nan
          /\ ret.rows[k].total_xg = 750
          /\ ret.rows[k].xg_per_shot = float_div(1, 4)

\* C16: the summary has exactly one row for each entry_zone that occurs in the
\* input and none for a zone without entries; every row has total_entries >= 1.
C16_OneRowPerObservedZone ==
    StatsCalled =>
        /\ ret.kind = "stats"
        /\ {ret.rows[k].entry_zone : k \in 1..Len(ret.rows)} =
               {call.entries_df[i].entry_zone : i \in 1..Len(call.entries_df)}
        /\ \A j, k \in 1..Len(ret.rows) :
               ret.rows[j].entry_zone = ret.rows[k].entry_zone => j = k
        /\ \A k \in 1..Len(ret.rows) : ret.rows[k].total_entries >= 1

\* C16 witness: entries in two of the three zones give a summary of two rows.
C16_Witness ==
    /\ StatsCalled
    /\ {call.entries_df[i].entry_zone : i \in 1..Len(call.entries_df)} = {"left", "right"}
    /\ Len(ret.rows) = 2
    /\ ret.rows[1].entry_zone = "left" /\ ret.rows[2].entry_zone = "right"

(***************************************************************************)
(* Claims about field tilt and possession (SpecShares)                     *)
(***************************************************************************)
TiltCalled == call.op = "calculate_field_tilt"
TiltReturned == TiltCalled /\ ret.kind = "field_tilt"
PossessionCalled == call.op = "calculate_possession"
PossessionReturned ==
    /\ PossessionCalled
    /\ ret.kind = "possession"
    /\ ~ret.team1_possession_percentage.nan
    /\ ~ret.team2_possession_percentage.nan

\* The passes of a team that start at x >= 17.5.
PassesStartingInFinalThird(team) ==
    {k \in 1..Len(events) :
        /\ events[k].baseTypeName = "PASS"
        /\ events[k].teamName = team
        /\ events[k].startPosXM >= 1750}

\* C17: when some pass of the two teams starts at x >= 17.5, the field tilt of
\* each team is the number of its passes that start at x >= 17.5 as a
\* percentage of both teams' such passes; a pass that starts at x < 17.5 is
\* not counted, wherever it ends.
C17_FieldTiltByStartX ==
    LET own == Cardinality(PassesStartingInFinalThird(call.team1_name))
        other == Cardinality(PassesStartingInFinalThird(call.team2_name))
    IN  (TiltCalled /\ own + other > 0) =>
            /\ ret.kind = "field_tilt"
            /\ ret.team1_field_tilt = Percent(own, own + other)
            /\ ret.team2_field_tilt = Percent(other, own + other)

\* The doubles 100, the one just below it and the one just above it.
Float100 == float_div(100, 1)
JustBelow100 ==
    [nan |-> FALSE, exponent |-> 6,
     mantissa |-> [i \in 1..MantissaBits |-> IF i \in {3, 4, 5} THEN 0 ELSE 1]]
JustAbove100 ==
    [nan |-> FALSE, exponent |-> 6,
     mantissa |-> [i \in 1..MantissaBits |-> IF i \in {1, 2, 5, MantissaBits} THEN 1 ELSE 0]]

\* C18 as stated: whenever field tilt or possession is returned with a
\* non-zero denominator, the two percentages add up to the double 100.
C18_SharesSumToExactly100 ==
    /\ TiltReturned =>
          float_add(ret.team1_field_tilt, ret.team2_field_tilt) = Float100
    /\ PossessionReturned =>
          float_add(ret.team1_possession_percentage,
                    ret.team2_possession_percentage) = Float100

\* C18: whenever field tilt or possession is returned with a non-zero
\* denominator for a table of the two named teams, the two percentages add up
\* to 100 within floating-point rounding: the sum is the double 100 or one of
\* its two neighbours.
C18_SharesSumTo100WithinRounding ==
    /\ TiltReturned =>
          float_add(ret.team1_field_tilt, ret.team2_field_tilt)
              \in {JustBelow100, Float100, JustAbove100}
    /\ PossessionReturned =>
          float_add(ret.team1_possession_percentage,
                    ret.team2_possession_percentage)
              \in {JustBelow100, Float100, JustAbove100}

\* C18 witness: one of three final-third passes is of one team, two of the
\* other: the percentages add up to 99.99999999999999.
C18_Witness ==
    /\ TiltReturned
    /\ ret.team1_field_tilt = Percent(1, 3)
    /\ ret.team2_field_tilt = Percent(2, 3)
    /\ float_add(ret.team1_field_tilt, ret.team2_field_tilt) = JustBelow100

(***************************************************************************)
(* Claims about the progressive-pass count (SpecProgressive)               *)
(***************************************************************************)
ProgressiveCalled == call.op = "calculate_progressive_passes"

SuccessfulPassesOf(team) ==
    {k \in 1..Len(events) :
        /\ events[k].baseTypeName = "PASS"
        /\ events[k].resultName = "SUCCESSFUL"
        /\ events[k].teamName = team}

\* Progressive passes that end outside the final third: progress >= 10 m.
ProgressiveOutside(team) ==
    {k \in SuccessfulPassesOf(team) :
        /\ events[k].endPosXM < 1750
        /\ events[k].endPosXM - events[k].startPosXM >= 1000}

\* Progressive passes that end inside the final third: progress >= 5 m.
ProgressiveInside(team) ==
    {k \in SuccessfulPassesOf(team) :
        /\ events[k].endPosXM >= 1750
        /\ events[k].endPosXM - events[k].startPosXM >= 500}

\* C19: for each team the reported 'outside' count is the number of its
\* successful passes that end at x < 17.5 with progress >= 10, the 'inside'
\* count the number that end at x >= 17.5 with progress >= 5, the two sets are
\* disjoint, and the total is the size of their union, each pass counted once.
C19_ProgressivePassesCountedOnce ==
    ProgressiveCalled =>
        LET out1 == ProgressiveOutside(call.team1_name)
            in1 == ProgressiveInside(call.team1_name)
            out2 == ProgressiveOutside(call.team2_name)
            in2 == ProgressiveInside(call.team2_name)
        IN  /\ ret.kind = "progressive_passes"
            /\ out1 \cap in1 = {} /\ out2 \cap in2 = {}
            /\ ret.team1_prog_passes_outside_final_third = Cardinality(out1)
            /\ ret.team2_prog_passes_outside_final_third = Cardinality(out2)
            /\ ret.team1_prog_passes_in_final_third = Cardinality(in1)
            /\ ret.team2_prog_passes_in_final_third = Cardinality(in2)
            /\ ret.team1_prog_passes = Cardinality(out1 \cup in1)
            /\ ret.team2_prog_passes = Cardinality(out2 \cup in2)

(***************************************************************************)
(* Claims about PPDA (SpecPpda)                                            *)
(***************************************************************************)
PpdaCalled == call.op = "calculate_ppda"
PpdaReturned == PpdaCalled /\ ret.kind = "ppda"

\* The successful passes and the clearances of a team that start at x < 10.5.
PassesAllowedBy(team) ==
    {k \in 1..Len(events) :
        /\ events[k].teamName = team
        /\ events[k].startPosXM < 1050
        /\ \/ events[k].baseTypeName = "PASS" /\ events[k].resultName = "SUCCESSFUL"
           \/ events[k].baseTypeName = "CLEARANCE"}

\* The defensive actions of a team (tackle 400, challenge 401, interception
\* 500, recovery 501, foul 700, blocked pass 1302) that start at x >= -10.5.
DefensiveActionsOf(team) ==
    {k \in 1..Len(events) :
        /\ events[k].teamName = team
        /\ events[k].subTypeId \in {400, 401, 500, 501, 700, 1302}
        /\ events[k].startPosXM >= -1050}

\* C20: when both teams have a defensive action starting at x >= -10.5, the
\* call returns, and whenever it returns the PPDA of team 1 is team 2's
\* successful passes and clearances starting at x < 10.5 divided by team 1's
\* defensive actions starting at x >= -10.5, and symmetrically for team 2.
C20_PpdaOpponentPassesPerDefensiveAction ==
    /\ (/\ PpdaCalled
        /\ DefensiveActionsOf(call.team1_name) # {}
        /\ DefensiveActionsOf(call.team2_name) # {}) => PpdaReturned
    /\ PpdaReturned =>
          /\ ret.team1_ppda =
                 float_div(Cardinality(PassesAllowedBy(call.team2_name)),
                           Cardinality(DefensiveActionsOf(call.team1_name)))
          /\ ret.team2_ppda =
                 float_div(Cardinality(PassesAllowedBy(call.team1_name)),
                           Cardinality(DefensiveActionsOf(call.team2_name)))

\* C20 witness: each team has one defensive action and only team 2 a pass:
\* team 1's PPDA is 1, team 2's is 0.
C20_Witness ==
    /\ PpdaReturned
    /\ Cardinality(DefensiveActionsOf(call.team1_name)) = 1
    /\ Cardinality(DefensiveActionsOf(call.team2_name)) = 1
    /\ Cardinality(PassesAllowedBy(call.team2_name)) = 1
    /\ PassesAllowedBy(call.team1_name) = {}
    /\ ret.team1_ppda = float_div(1, 1)
    /\ ret.team2_ppda = FloatZero

(***************************************************************************)
(* Claims about the entry detector (SpecEntries)                           *)
(***************************************************************************)
DetectorReturned == call.op = "get_final_third_entries" /\ ret.kind = "entries"
ZoneEntriesReturned == call.op = "get_zone_entries_data" /\ ret.kind = "entries"

\* The rows of the event table that cross into the final third: PASS or
\* DRIBBLE, succeeded, start x < 17.5, end x >= 17.5.
CrossingRows ==
    {k \in 1..Len(events) :
        /\ events[k].baseTypeName \in {"PASS", "DRIBBLE"}
        /\ events[k].resultName = "SUCCESSFUL"
        /\ events[k].startPosXM < 1750
        /\ events[k].endPosXM >= 1750}

\* The returned rows are exactly the given rows of the event table.
ReturnsExactly(expected) ==
    /\ Len(ret.rows) = Cardinality(expected)
    /\ {ret.rows[i].eventId : i \in 1..Len(ret.rows)} = {events[k].eventId : k \in expected}
    /\ \A i \in 1..Len(ret.rows) :
          LET e == events[ret.rows[i].eventId]
          IN  /\ ret.rows[i].teamName = e.teamName
              /\ ret.rows[i].baseTypeName = e.baseTypeName
              /\ ret.rows[i].startPosXM = e.startPosXM
              /\ ret.rows[i].endPosXM = e.endPosXM
              /\ ret.rows[i].endPosYM = e.endPosYM

\* C4: get_final_third_entries returns exactly the crossing rows, and
\* get_zone_entries_data for a team, whenever it returns, exactly the crossing
\* rows of that team; no returned row ends at x < 17.5, and every returned row
\* carries an entry_zone in {left, center, right}, never an empty label.
C4_EntryDetection ==
    /\ DetectorReturned => ReturnsExactly(CrossingRows)
    /\ ZoneEntriesReturned =>
          /\ ReturnsExactly({k \in CrossingRows : events[k].teamName = call.team_name})
          /\ \A i \in 1..Len(ret.rows) :
                /\ ret.rows[i].endPosXM >= 1750
                /\ ret.rows[i].entry_zone \in {"left", "center", "right"}

\* C4 witness: of three rows, a pass ending exactly at x = 17.5 is returned, a
\* pass ending just short of it and a pass of the other team are not.
C4_Witness ==
    /\ ZoneEntriesReturned
    /\ Len(events) = 3 /\ Len(ret.rows) = 1
    /\ ret.rows[1].endPosXM = 1750
    /\ \E k \in 1..3 : events[k].endPosXM = 1749
    /\ \E k \in 1..3 : k \in CrossingRows /\ events[k].teamName # call.team_name

\* C5: the entry_zone of every entry is decided by its end y alone: below -12
\* it is 'right', above 12 it is 'left', anything else, -12 and 12 included, is
\* 'center'; entries with the same end y have the same entry_zone whatever
\* their end x.
C5_EntryZoneByEndY ==
    ZoneEntriesReturned =>
        /\ \A i \in 1..Len(ret.rows) :
              ret.rows[i].entry_zone =
                  IF ret.rows[i].endPosYM < -1200 THEN "right"
                  ELSE IF ret.rows[i].endPosYM > 1200 THEN "left"
                  ELSE "center"
        /\ \A i, j \in 1..Len(ret.rows) :
              ret.rows[i].endPosYM = ret.rows[j].endPosYM
                  => ret.rows[i].entry_zone = ret.rows[j].entry_zone

\* C5 witness: two entries with end y just below -12 and different end x are
\* both 'right', and an entry with end y exactly 12 is 'center'.
C5_Witness ==
    /\ ZoneEntriesReturned
    /\ \E i, j, k \in 1..Len(ret.rows) :
          /\ ret.rows[i].endPosYM = -1201 /\ ret.rows[j].endPosYM = -1201
          /\ ret.rows[i].endPosXM # ret.rows[j].endPosXM
          /\ ret.rows[i].entry_zone = "right" /\ ret.rows[j].entry_zone = "right"
          /\ ret.rows[k].endPosYM = 1200 /\ ret.rows[k].entry_zone = "center"

(***************************************************************************)
(* Claims about calculate_dominance_metrics (SpecDominance)                *)
(***************************************************************************)
DominanceCalled == pc = "done" /\ call.op = "calculate_dominance_metrics"
DominanceReturned == DominanceCalled /\ ret.kind = "dominance_metrics"

\* The denominators of the team-level metrics, counted on the table.
PossessionDurationTotal ==
    SumOfValues([i \in 1..Len(events) |->
                    IF events[i].baseTypeName \in {"PASS", "DRIBBLE", "TAKE_ON", "CARRY", "TOUCH"}
                    THEN events[i].endTimeMs - events[i].startTimeMs
                    ELSE 0], 1..Len(events))
FinalThirdPassTotal ==
    Cardinality({i \in 1..Len(events) :
                    events[i].baseTypeName = "PASS" /\ events[i].endPosXM >= 1750})
SuccessfulPassCount(team) ==
    Cardinality({i \in 1..Len(events) :
                    /\ events[i].teamName = team
                    /\ events[i].baseTypeName = "PASS"
                    /\ events[i].resultName = "SUCCESSFUL"})
DefensiveActionCount(team) ==
    Cardinality({i \in 1..Len(events) :
                    /\ events[i].teamName = team
                    /\ events[i].subTypeId \in {400, 401, 500, 501, 700, 1302}
                    /\ events[i].startPosXM >= -1050})
ZeroDenominator ==
    \/ PossessionDurationTotal = 0
    \/ FinalThirdPassTotal = 0
    \/ \E team \in Teams : SuccessfulPassCount(team) = 0
    \/ \E team \in Teams : DefensiveActionCount(team) = 0

\* C21: whenever a denominator of a team-level metric is zero (total
\* possession duration, final-third passes, a team's defensive actions, a
\* team's successful passes), calculate_dominance_metrics raises; a record it
\* returns holds no NaN in possession, field_tilt, pp_ratio or ppda.
C21_ZeroDenominatorRaises ==
    DominanceCalled =>
        /\ ZeroDenominator => ret.kind = "error"
        /\ ret.kind = "dominance_metrics" =>
              \A i \in 1..2 :
                  /\ ~ret.rows[i].possession.nan
                  /\ ~ret.rows[i].field_tilt.nan
                  /\ ~ret.rows[i].pp_ratio.nan
                  /\ ~ret.rows[i].ppda.nan

(***************************************************************************)
(* Claims about the block analysis (SpecBlock)                             *)
(***************************************************************************)
BlockCalled == pc = "done" /\ call.op = "analyze_block_by_ball_position"
BlockReturned == BlockCalled /\ ret.kind = "summary"
HullCalled == pc = "done" /\ call.op = "calculate_convex_hull_area"

\* No three of the points span a triangle: ConvexHull has nothing to build
\* and raises QhullError.
AllOnOneLine(points) ==
    \A i \in 1..Len(points) : \A j \in 1..Len(points) : \A k \in 1..Len(points) :
        (points[j][1] - points[i][1]) * (points[k][2] - points[i][2])
            = (points[j][2] - points[i][2]) * (points[k][1] - points[i][1])

\* C22: an analysis function that catches an exception raises it again to its
\* caller; none returns normally after an internal error.  Here: the
\* ValueError of analyze_block_by_ball_position (no frame ids, empty table)
\* and the error ConvexHull raises inside calculate_convex_hull_area for
\* three or more points on one line.
C22_FailuresReachTheCaller ==
    /\ (BlockCalled /\ (call.possession_frame_ids = None \/ call.tracking_df = << >>))
           => ret.kind = "error"
    /\ (HullCalled /\ Len(call.points) >= 3 /\ AllOnOneLine(call.points))
           => ret.kind = "error"

(***************************************************************************)
(* Claims about the caller's event table (SpecCalls)                       *)
(***************************************************************************)
HeatmapCalled == pc = "done" /\ call.op = "get_territorial_heatmap_data"

FrameList == call.possession_frame_ids.value
SampledFrames == {FrameList[i] : i \in {k \in 1..Len(FrameList) : (k - 1) % 10 = 0}}
UnsampledFrames == {FrameList[i] : i \in {k \in 1..Len(FrameList) : (k - 1) % 10 # 0}}
RowsOf(frame, team) ==
    {i \in 1..Len(call.tracking_df) :
        call.tracking_df[i].frame_id = frame /\ call.tracking_df[i].team_name = team}
OutfieldOf(frame) ==
    {i \in RowsOf(frame, call.defending_team_name) : call.tracking_df[i].shirt_number # 23}
HasBlock(frame) == RowsOf(frame, "ball") # {} /\ Cardinality(OutfieldOf(frame)) >= 3
BallZoneOf(frame) ==
    LET ball == call.tracking_df[CHOOSE i \in RowsOf(frame, "ball") : TRUE]
    IN  get_zone_for_position(ball.x, ball.y)
CountedIn(zone_name) ==
    {frame \in SampledFrames : HasBlock(frame) /\ BallZoneOf(frame) = zone_name}
DefendersOf(frames) ==
    {i \in 1..Len(call.tracking_df) :
        /\ call.tracking_df[i].frame_id \in frames
        /\ call.tracking_df[i].team_name = call.defending_team_name}

\* C24: only the frames at positions 0, 10, 20, ... of possession_frame_ids
\* are processed; each of them counts for the zone of its ball, and only if
\* it has a ball row and at least 3 outfield defenders.  So in every zone
\* frame_count is the number of such frames, as many block_metrics are
\* recorded, the positions are those of the defenders of these frames, the
\* frame_counts sum to at most the number of sampled frames, and the summary
\* has exactly the zones with a frame.
C24_EveryTenthFrameCountsForItsBallZone ==
    BlockReturned =>
        /\ \A zone_name \in DOMAIN results :
              /\ results[zone_name].frame_count = Cardinality(CountedIn(zone_name))
              /\ Len(results[zone_name].block_metrics) = results[zone_name].frame_count
              /\ Len(results[zone_name].positions)
                     = Cardinality(DefendersOf(CountedIn(zone_name)))
        /\ SumOfValues([zone_name \in DOMAIN results |-> results[zone_name].frame_count],
                       DOMAIN results) <= Cardinality(SampledFrames)
        /\ DOMAIN ret.summary
               = {zone_name \in DOMAIN results : results[zone_name].frame_count > 0}
        /\ \A zone_name \in DOMAIN ret.summary :
              ret.summary[zone_name].frame_count = results[zone_name].frame_count

\* Two frames have a ball and three outfield defenders; the one at position
\* 10 is counted, for the zone of its ball, the one at position 1 is not.
C24_Witness ==
    /\ BlockReturned
    /\ Len(FrameList) >= 11
    /\ HasBlock(FrameList[11])
    /\ HasBlock(FrameList[2])
    /\ BallZoneOf(FrameList[2]) # BallZoneOf(FrameList[11])
    /\ results[BallZoneOf(FrameList[11])].frame_count = 1
    /\ results[BallZoneOf(FrameList[2])].frame_count = 0
    /\ DOMAIN ret.summary = {BallZoneOf(FrameList[11])}

(***************************************************************************)
(* Claims about recycling and the triggering event (Spec)                  *)
(***************************************************************************)
\* C25: recycled is decided on the whole window, before the loop and whatever
\* the loop finds: when the window holds another entry event, recycled is
\* true, and turnover is true exactly when an opposing INTERCEPTION or
\* CLEARANCE of the window lies strictly before the earliest other entry; one
\* at or after that entry's timestamp is cut off.
C25_RecycledDecidedBeforeTurnover ==
    (OutcomeReturned /\ OtherEntries # {}) =>
        /\ ret.recycled
        /\ ret.turnover <=>
               \E i \in 1..Len(window) :
                   /\ OpposingTurnover(window[i])
                   /\ window[i].timestamp < EarliestOtherEntry

\* A clearance of the opponent before the other entry: turnover and recycled
\* are both true.
C25_Witness ==
    /\ OutcomeReturned
    /\ OtherEntries # {}
    /\ \E i \in 1..Len(window) :
          /\ window[i].baseTypeName = "CLEARANCE"
          /\ OpposingTurnover(window[i])
          /\ call.entry_timestamp < window[i].timestamp
          /\ window[i].timestamp < EarliestOtherEntry
    /\ ret.turnover /\ ret.recycled

\* The events of the table that count as another entry for the call: same
\* sequence, inside the window, not the triggering eventId, from x < 17.5 to
\* x >= 17.5; of any type, team and result.
Crossings ==
    {k \in 1..Len(events) :
        /\ InCallWindow(events[k])
        /\ events[k].eventId # call.entry_event_id
        /\ events[k].startPosXM < 1750
        /\ events[k].endPosXM >= 1750}

DetectorWouldReturn(e) == e.baseTypeName \in {"PASS", "DRIBBLE"} /\ e.resultId = 1

\* C26: recycle detection has no type, team or result filter: recycled is
\* true exactly when the table holds such a crossing event, whoever made it
\* and whatever its type and result, and the loop then sees no event at or
\* after the earliest crossing's timestamp.
C26_RecycleHasNoTypeTeamOrResultFilter ==
    OutcomeCalled =>
        /\ OutcomeReturned => (ret.recycled <=> Crossings # {})
        /\ \A k \in Crossings : \A i \in 1..Len(scanned) :
               scanned[i].timestamp < events[k].timestamp

\* recycled is true although every other crossing event is one the entry
\* detector does not return: a carry, and a failed pass of the opponent;
\* the shot after them is cut off.
C26_Witness ==
    /\ OutcomeReturned
    /\ ret.recycled
    /\ \A k \in Crossings : ~DetectorWouldReturn(events[k])
    /\ \E k \in Crossings : events[k].baseTypeName = "CARRY"
    /\ \E k \in Crossings :
          /\ events[k].baseTypeName = "PASS"
          /\ events[k].resultId # 1
          /\ events[k].teamName # call.team_name
    /\ Len(scanned) < Len(window)

\* The triggering event as a row of the table, if the call names one of its
\* sequence; whether it goes from outside the penalty box to inside it.
TriggerRows ==
    {k \in 1..Len(events) :
        /\ events[k].eventId = call.entry_event_id
        /\ events[k].sequenceId = call.sequence_id
        /\ events[k].timestamp = call.entry_timestamp}
TriggerEntersBox ==
    \E k \in TriggerRows :
        /\ ~InsideBox(events[k].startPosXM, events[k].startPosYM)
        /\ InsideBox(events[k].endPosXM, events[k].endPosYM)
TriggerScanned == \E i \in 1..Len(scanned) : scanned[i].eventId = call.entry_event_id
EntryAtTriggerTime == \E i \in OtherEntries : window[i].timestamp = call.entry_timestamp
TurnoverAtTriggerTime ==
    \E i \in 1..Len(window) :
        OpposingTurnover(window[i]) /\ window[i].timestamp = call.entry_timestamp
RecycledOnly ==
    [ kind |-> "outcome", box_entry |-> FALSE, box_entry_count |-> 0,
      shot |-> FALSE, shot_count |-> 0, goal |-> FALSE, goal_count |-> 0,
      total_xg |-> 0, turnover |-> FALSE, recycled |-> TRUE ]

\* C27 as stated: the triggering event is in the scanned list when it is in
\* the table and no other entry shares its timestamp, and if it goes from
\* outside the box to inside it the outcome has box_entry = true with
\* box_entry_count >= 1; when another entry has exactly its timestamp nothing
\* is scanned and the outcome is recycled = true with every other field
\* false or zero.
C27_TriggerIsScanned ==
    (OutcomeReturned /\ TriggerRows # {}) =>
        IF EntryAtTriggerTime
        THEN scanned = << >> /\ ret = RecycledOnly
        ELSE /\ TriggerScanned
             /\ TriggerEntersBox => (ret.box_entry /\ ret.box_entry_count >= 1)

\* C27, amended: the same, the box entry of the triggering event being
\* counted when no INTERCEPTION or CLEARANCE of the opponent in the window
\* has the entry's timestamp (such an event can come first in the sorted
\* list and stop the loop before the triggering event).
C27_TriggerIsScannedUnlessTurnoverTies ==
    (OutcomeReturned /\ TriggerRows # {}) =>
        IF EntryAtTriggerTime
        THEN scanned = << >> /\ ret = RecycledOnly
        ELSE /\ TriggerScanned
             /\ (TriggerEntersBox /\ ~TurnoverAtTriggerTime)
                    => (ret.box_entry /\ ret.box_entry_count >= 1)

\* The triggering pass ends in the box and is counted; the opponent's
\* clearance comes later.
C27_Witness ==
    /\ OutcomeReturned
    /\ TriggerRows # {}
    /\ TriggerEntersBox
    /\ ~EntryAtTriggerTime
    /\ scanned[1].eventId = call.entry_event_id
    /\ ret.box_entry /\ ret.box_entry_count = 1
    /\ ret.turnover

(***************************************************************************)
(* Claims about the two classifiers of an end position (SpecZone)          *)
(***************************************************************************)
ClassifyCalled == call.op = "classify_entry_zone"

\* The position of the call lies in the final third of the pitch, x = 17.5
\* excluded.
InFinalThird ==
    /\ 1750 < call.x /\ call.x <= 5250
    /\ -3400 <= call.y /\ call.y <= 3400

\* The label of each classifier for the position of the call: the one that was
\* called has returned it, the other one is applied to the same position.
SideOfCall ==
    IF ClassifyCalled THEN ret.value ELSE classify_entry_zone(call.x, call.y)

ZoneOfCall ==
    IF ZoneCalled THEN ret.value ELSE get_zone_for_position(call.x, call.y)

\* The 3-way label and the 6-zone label name the same side.
SidesAgree ==
    /\ SideOfCall = "left" <=> ZoneOfCall = "left_final_third"
    /\ SideOfCall = "center" <=> ZoneOfCall = "center_final_third"
    /\ SideOfCall = "right" <=> ZoneOfCall = "right_final_third"

\* C28 as stated: for every end position with 17.5 < x <= 52.5 and
\* -34 <= y <= 34, classify_entry_zone returns 'left' / 'center' / 'right'
\* exactly when get_zone_for_position returns 'left_final_third' /
\* 'center_final_third' / 'right_final_third'.
C28_SplitAgreesWithZoneTable ==
    ((ZoneCalled \/ ClassifyCalled) /\ InFinalThird) => SidesAgree

\* C28: the two classifiers agree on the side for every end position with
\* 17.5 < x <= 52.5 and -34 <= y <= 34 except on the line y = 12, where
\* classify_entry_zone returns 'center' and get_zone_for_position returns
\* 'left_final_third'.
C28_SplitAgreesOffTheLeftEdge ==
    ((ZoneCalled \/ ClassifyCalled) /\ InFinalThird) =>
        /\ call.y # 1200 => SidesAgree
        /\ call.y = 1200 =>
              /\ SideOfCall = "center"
              /\ ZoneOfCall = "left_final_third"

\* C28 witness: classify_entry_zone returned 'center' for a position on the
\* line y = -12 of the final third, where the table gives 'center_final_third'.
C28_Witness ==
    /\ ClassifyCalled
    /\ InFinalThird
    /\ call.y = -1200
    /\ ret.value = "center"
    /\ ZoneOfCall = "center_final_third"

(***************************************************************************)
(* Claims about the copies of the zone lookup (SpecBlock)                  *)
(***************************************************************************)
BallZoneCalled == call.op = "get_ball_zone"

\* The keys of the results map analyze_block_by_ball_position starts from.
ResultsKeys == DOMAIN block_results(<< >>, "Belgium", << >>, SampleStep)

\* C29: for every position (x, y), get_ball_zone(x, y, PitchZones.get_zones())
\* and the inner assign_zone_vectorized of analyze_block_by_ball_position
\* return the same label as PitchZones.get_zone_for_position(x, y), and that
\* label is a key of the results map: one of the six zones or 'build_up_zone'.
C29_ZoneLookupCopiesAgree ==
    /\ BallZoneCalled =>
          /\ ret.kind = "zone"
          /\ ret.name = get_zone_for_position(call.x, call.y)
          /\ assign_zone_vectorized([x |-> call.x, y |-> call.y]) = ret.name
          /\ ret.name \in ResultsKeys
          /\ ResultsKeys = ZoneLabels
    /\ (BlockCalled /\ ret.kind # "error") => DOMAIN results = ZoneLabels

\* C29 witness: get_ball_zone was called with the corner shared by four zones
\* and returned the first of them, as the two other copies do.
C29_Witness ==
    /\ BallZoneCalled
    /\ call.x = 1750 /\ call.y = 1200
    /\ ret.name = "left_progression"
    /\ get_zone_for_position(call.x, call.y) = "left_progression"
    /\ assign_zone_vectorized([x |-> call.x, y |-> call.y]) = "left_progression"

(***************************************************************************)
(* Claims about the counts of calculate_entry_zone_stats (SpecStats)       *)
(***************************************************************************)
\* a <= b for two doubles of the statistics (non-negative, not NaN).
FloatAtMost(a, b) ==
    /\ ~a.nan /\ ~b.nan
    /\ \/ a.mantissa[1] = 0
       \/ /\ b.mantissa[1] = 1
          /\ \/ a.exponent < b.exponent
             \/ /\ a.exponent = b.exponent
                /\ \/ a.mantissa = b.mantissa
                   \/ \E i \in 1..MantissaBits :
                         /\ a.mantissa[i] < b.mantissa[i]
                         /\ \A j \in 1..(i - 1) : a.mantissa[j] = b.mantissa[j]

IsPercentage(rate) == FloatAtMost(FloatZero, rate) /\ FloatAtMost(rate, Float100)

\* Every input entry satisfies the outcome invariants.
OutcomeInvariants ==
    \A i \in 1..Len(call.entries_df) :
        /\ call.entries_df[i].shot <=> call.entries_df[i].shot_count >= 1
        /\ call.entries_df[i].box_entry <=> call.entries_df[i].box_entry_count >= 1

\* The input entries that have a zone label.
LabelledEntries ==
    {i \in 1..Len(call.entries_df) : call.entries_df[i].entry_zone # "None"}

\* C30: when every input entry satisfies the outcome invariants, the
\* total_entries of all output rows sum to the number of input entries that
\* have a zone label, and in every row entries_with_shot <= total_entries,
\* entries_with_shot <= total_shots, entries_with_box_entry <=
\* total_box_entries, total_turnovers <= total_entries, total_recycles <=
\* total_entries, and each of the four rates lies between 0 and 100.
C30_AggregationConservesCounts ==
    (StatsCalled /\ OutcomeInvariants) =>
        /\ ret.kind = "stats"
        /\ column_sum(ret.rows, "total_entries") = Cardinality(LabelledEntries)
        /\ \A k \in 1..Len(ret.rows) :
              LET row == ret.rows[k]
              IN  /\ row.entries_with_shot <= row.total_entries
                  /\ row.entries_with_shot <= row.total_shots
                  /\ row.entries_with_box_entry <= row.total_box_entries
                  /\ row.total_turnovers <= row.total_entries
                  /\ row.total_recycles <= row.total_entries
                  /\ IsPercentage(row.shot_rate)
                  /\ IsPercentage(row.box_entry_rate)
                  /\ IsPercentage(row.turnover_rate)
                  /\ IsPercentage(row.recycle_rate)

\* C30 witness: a summary of three zones over a full frame, with a zone that
\* has more shots than entries with a shot, a rate of 100, a rate of 0 and a
\* rate strictly between them.
C30_Witness ==
    /\ StatsCalled /\ OutcomeInvariants
    /\ Len(call.entries_df) = MaxEntries
    /\ Len(ret.rows) = 3
    /\ column_sum(ret.rows, "total_entries") = MaxEntries
    /\ \E k \in 1..3 : ret.rows[k].entries_with_shot < ret.rows[k].total_shots
    /\ \E k \in 1..3 : ret.rows[k].recycle_rate = Float100
    /\ \E k \in 1..3 : ret.rows[k].shot_rate = FloatZero
    /\ \E k \in 1..3 :
          /\ ret.rows[k].turnover_rate # FloatZero
          /\ ret.rows[k].turnover_rate # Float100
          /\ IsPercentage(ret.rows[k].turnover_rate)

====
